---- MODULE Spec2Model ----
(***************************************************************************)
(* Model of the lazy storage replicator: MultiStorageClient (the           *)
(* coordinator) on top of AzureBlobStorageClient (backend A) and           *)
(* AwsS3Client (backend B).                                                *)
(*                                                                         *)
(* The two remote services and the local disk are state; every adapter     *)
(* call of the coordinator settles in a step of its own whose outcome      *)
(* (answered / transport fault) is chosen by the environment.             *)
(* Where the outcome depends on the node runtime (a promise rejected with  *)
(* no handler, fs.unlink called without a callback) both outcomes are      *)
(* steps: the program goes on, or the process exits.                       *)
(*                                                                         *)
(* Spec       one caller, every operation, one container/bucket pair.      *)
(* SpecRace   two callers racing a replicating read, a third locating.     *)
(* SpecClient construction, initialize, isInitialized and the resolution   *)
(*            of container and bucket names; the storages are not used.    *)
(* SpecWrites one caller uploading to both storages, one making           *)
(*            replicating reads; every adapter call answered.              *)
(* SpecMixed  one caller uploading and deleting, one making a replicating  *)
(*            read or a storagesContainingFile call.                       *)
(* SpecLive   calls before and after initialize, with weak fairness of     *)
(*            the settling of adapter calls.                               *)
(***************************************************************************)
EXTENDS Integers, FiniteSets, Sequences, TLC

\* ---------------------------------------------------------------- bounds
MaxContent == 2          \* distinct file contents 1..MaxContent
MaxPendingDeletes == 1   \* deleteBlob requests in flight per caller and blob
MaxScope == 2            \* distinct container / bucket names 1..MaxScope

\* ------------------------------------------------------------- constants
Undefined == 0
AzureBlobStorage == 1
AwsS3 == 2
Both == 3
StorageType == {Undefined, AzureBlobStorage, AwsS3, Both}

Absent == 0              \* no blob / no key / no local file
Partial == -1            \* local file that is empty or holds part of a transfer
Content == 1..MaxContent

Paths == {"k"}            \* storage file paths the callers use
Prefixes == {"", "k", "z"} \* name prefixes the callers list with

ERROR_CODE_NOT_FOUND == "NotFound"

NoScope == 0             \* a name that is falsy: omitted, undefined or ""
Scopes == 0..MaxScope
DefaultScope == 1        \* the container and bucket the storage calls address
TheContent == 1          \* the file content used where only presence matters

VARIABLES
    azure,      \* blob name -> content held by the Azure container
    s3,         \* key -> content held by the S3 bucket
    local,      \* caller -> content of the caller's local destination file
    azDeletes,  \* caller -> blob -> deleteBlob requests issued, not yet applied
    call,       \* caller -> the coordinator call the caller is in
    last,       \* caller -> the call the caller made just before (history)
    client,     \* the fields of the coordinator and of the two adapters
    asked,      \* the last isInitialized / scope resolution and its outcome
    process     \* "running", or "exited" once node has terminated

vars == <<azure, s3, local, azDeletes, call, last, client, asked, process>>

\* ------------------------------------------------- StorageType bit tests
HasAzure(t) == t % 2 = 1
HasAws(t) == (t \div 2) % 2 = 1
\* Mutant: setting a flag adds its value.
OrFlag_Adds(t, f) == t + f

\* t | f for one flag f.
OrFlag(t, f) == IF f = AzureBlobStorage
                THEN (IF HasAzure(t) THEN t ELSE t + AzureBlobStorage)
                ELSE (IF HasAws(t) THEN t ELSE t + AwsS3)

\* a | b on StorageType values, flag by flag.
BitOr(a, b) ==
    LET r == IF HasAzure(b) THEN OrFlag(a, AzureBlobStorage) ELSE a
    IN  IF HasAws(b) THEN OrFlag(r, AwsS3) ELSE r

\* ------------------------------------------- initialization and scopes
\* a || b on names.
Or(a, b) == IF a # NoScope THEN a ELSE b

\* AzureBlobStorageClient.isInitialized / AwsS3Client.isInitialized: the
\* handle of the SDK client !== undefined.  The field starts as null.
AdapterIsInitialized(handle) == handle # "undefined"

\* MultiStorageClient.isInitialized: calls isInitialized on its two adapter
\* fields, which are null until initialize.
MultiIsInitialized(cl) ==
    IF cl.multi.azureBlobStorageClient = "null" THEN "TypeError"
    ELSE IF ~AdapterIsInitialized(cl.azure.azureBlobService) THEN "false"
    ELSE IF cl.multi.awsS3Client = "null" THEN "TypeError"
    ELSE IF AdapterIsInitialized(cl.aws.s3Client) THEN "true" ELSE "false"

\* containerName = containerName || getDefaultContainerName()
ResolveContainerName(containerName, defaultContainerName) ==
    Or(containerName, defaultContainerName)

\* Mutant: the bucket name does not fall back to the container name.
ResolveBucketName_NoFallback(bucketName, defaultBucketName, containerName) ==
    Or(bucketName, defaultBucketName)

\* bucketName = bucketName || getDefaultBucketName() || containerName
ResolveBucketName(bucketName, defaultBucketName, containerName) ==
    Or(Or(bucketName, defaultBucketName), containerName)

\* The coordinator's operations that take a container and a bucket name,
\* and those of them that hand the resolved names to
\* storagesContainingFile, which resolves them again.
ScopedOps == {"storagesContainingFile", "fileExists", "listFilesWithPrefix",
              "listFileNamesWithPrefix",
              "downloadFileToDiskAndReplicateIfNecessary", "downloadFile",
              "downloadFileToDisk", "uploadFileToStorage", "deleteFiles",
              "deleteFile"}
ResolvesTwice == {"downloadFileToDiskAndReplicateIfNecessary",
                  "downloadFile", "downloadFileToDisk"}

\* The names the two adapters are called with, and the container and bucket
\* they then address (each adapter applies its own default once more).
ScopesUsed(cl, op, containerName, bucketName) ==
    LET c1 == ResolveContainerName(containerName, cl.azure.defaultContainerName)
        b1 == ResolveBucketName(bucketName, cl.aws.defaultBucketName, c1)
        c2 == IF op \in ResolvesTwice
              THEN ResolveContainerName(c1, cl.azure.defaultContainerName)
              ELSE c1
        b2 == IF op \in ResolvesTwice
              THEN ResolveBucketName(b1, cl.aws.defaultBucketName, c2)
              ELSE b1
    IN  [azure |-> Or(c2, cl.azure.defaultContainerName),
         aws |-> Or(b2, cl.aws.defaultBucketName)]

\* The fields after construction, and after initialize of the coordinator.
Constructed ==
    [multi |-> [azureBlobStorageClient |-> "null", awsS3Client |-> "null"],
     azure |-> [azureBlobService |-> "null", defaultContainerName |-> NoScope],
     aws |-> [s3Client |-> "null", defaultBucketName |-> NoScope]]

InitializedWith(defaultContainerName, defaultBucketName) ==
    [multi |-> [azureBlobStorageClient |-> "object", awsS3Client |-> "object"],
     azure |-> [azureBlobService |-> "object",
                defaultContainerName |-> defaultContainerName],
     aws |-> [s3Client |-> "object", defaultBucketName |-> defaultBucketName]]

\* What was last asked of the objects since an initialize, and the answer.
NotAsked ==
    [op |-> "none", on |-> "none", initialized |-> FALSE, out |-> "none",
     containerName |-> NoScope, bucketName |-> NoScope,
     azure |-> NoScope, aws |-> NoScope]

\* ------------------------------------------------------ adapter results
\* AzureBlobStorageClient.fileExists: any error of getBlobProperties
\* (not-found or not) resolves false.
AzureFileExists(content, fault) ==
    IF fault \/ content = Absent THEN FALSE ELSE TRUE

\* Mutant: headObject's error is not looked at.
AwsFileExists_AlwaysTrue(content, fault) == TRUE

\* AwsS3Client.fileExists: only an error whose code is NotFound resolves
\* false; every other outcome of headObject, errors included, resolves true.
AwsFileExists(content, fault) ==
    IF (~fault) /\ content = Absent THEN FALSE ELSE TRUE

\* storagesContainingFile: union of the two answers.
StoragesContaining(fileExistsBlob, fileExistsAws) ==
    LET r0 == Undefined
        r1 == IF fileExistsBlob THEN OrFlag(r0, AzureBlobStorage) ELSE r0
    IN  IF fileExistsAws THEN OrFlag(r1, AwsS3) ELSE r1

\* What storagesContainingFile returns when both probes are answered now.
LocateNow(p) ==
    StoragesContaining(AzureFileExists(azure[p], FALSE),
                       AwsFileExists(s3[p], FALSE))

\* Mutant: fileExists answers true only for a file in both storages.
FileExistsResult_OnlyBoth(found) == found = Both

\* fileExists: storagesContainingFile(...) != StorageType.Undefined.
FileExistsResult(found) == found # Undefined

\* downloadFileToDiskAndReplicateIfNecessary: backend fetched from, and
\* backend pushed to afterwards (Undefined: no push).
ReplicateSource(found) ==
    IF found = Both THEN AzureBlobStorage
    ELSE IF found = AzureBlobStorage THEN AzureBlobStorage
    ELSE AwsS3

\* Mutant: the upload after the download is missing.
ReplicateTarget_NoPush(found) == Undefined

\* Mutant: the branch for a file in both storages uploads as well.
ReplicateTarget_AlwaysPush(found) ==
    IF found = AzureBlobStorage THEN AwsS3
    ELSE IF found = Undefined THEN Undefined
    ELSE AzureBlobStorage

ReplicateTarget(found) ==
    IF found = Both THEN Undefined
    ELSE IF found = AzureBlobStorage THEN AwsS3
    ELSE IF found = AwsS3 THEN AzureBlobStorage
    ELSE Undefined

\* Mutant: the S3 branch is tested first.
DownloadSource_PrefersS3(found) ==
    IF HasAws(found) THEN AwsS3 ELSE AzureBlobStorage

\* downloadFile / downloadFileToDisk: Azure first, S3 otherwise.
DownloadSource(found) ==
    IF HasAzure(found) THEN AzureBlobStorage ELSE AwsS3

\* Mutant: the requested storages are ignored.
EffectiveStorage_AlwaysBoth(storageToUse) == Both

\* uploadFileToStorage: storageToUse = storageToUse || Both.
EffectiveStorage(storageToUse) ==
    IF storageToUse = Undefined THEN Both ELSE storageToUse

\* Mutant: the flags are added whether or not the awaited promise rejected.
UploadedStorages_IgnoresRejection(stA, stB) ==
    (IF stA # "none" THEN AzureBlobStorage ELSE Undefined)
    + (IF stB # "none" THEN AwsS3 ELSE Undefined)

\* uploadFileToStorage: the set built from the two awaited promises.
UploadedStorages(stA, stB) ==
    LET r0 == Undefined
        r1 == IF stA = "ok" THEN OrFlag(r0, AzureBlobStorage) ELSE r0
    IN  IF stB = "ok" THEN OrFlag(r1, AwsS3) ELSE r1

\* AzureBlobStorageClient.deleteFiles: Promise.all over the return values
\* of deleteBlob, which are undefined, not promises: the promise resolves
\* whatever becomes of the requests.
AzureDeleteFilesResolves(blobNames) == TRUE

\* deleteFiles: result after the two awaits, the later catch overwriting
\* the earlier one.
DeleteResult(azureOk, s3Ok) ==
    LET r1 == IF azureOk THEN [kind |-> "null", val |-> 0]
              ELSE [kind |-> "azureError", val |-> 0]
    IN  IF s3Ok THEN r1 ELSE [kind |-> "s3Error", val |-> 0]

\* The names of Paths that start with a prefix of Prefixes.
StartsWith(name, prefix) == prefix = "" \/ prefix = name

RECURSIVE SetToSeq(_)
SetToSeq(S) ==
    IF S = {} THEN << >>
    ELSE LET x == CHOOSE y \in S : TRUE IN <<x>> \o SetToSeq(S \ {x})

\* AzureBlobStorageClient / AwsS3Client listFileNamesWithPrefix: the names
\* plucked from the listing of a container or bucket.
ListedNames(store, prefix) ==
    SetToSeq({p \in Paths : store[p] # Absent /\ StartsWith(p, prefix)})

\* listFileNamesWithPrefix: fileNames.concat(...) returns a new array, which
\* is dropped; fileNames itself is returned.
ListFileNamesResult(fileNames, s3Names) == fileNames

\* The set of backends that hold the path.
Holders(az, aws, p) == StoragesContaining(az[p] # Absent, aws[p] # Absent)

\* ------------------------------------------------------------ call state
NoResult == [kind |-> "none", val |-> 0]

IdleCall ==
    [op |-> "idle", pc |-> "idle", paths |-> {}, src |-> Absent,
     prefix |-> "", fileNames |-> << >>, filesFoundInS3 |-> << >>,
     storageToUse |-> Undefined, fileExistsBlob |-> FALSE,
     found |-> Undefined, stA |-> "none", stB |-> "none",
     result |-> NoResult,
     \* history of the call, for the properties
     faults |-> {}, probed |-> {}, fetched |-> {}, stored |-> {},
     seenAz |-> Absent, seenS3 |-> Absent, instants |-> {},
     streamOpen |-> FALSE,
     clean |-> TRUE,
     preAz |-> [p \in Paths |-> Absent], preS3 |-> [p \in Paths |-> Absent],
     preLocal |-> Absent]

NoDeleteInFlight(ps) ==
    \A d \in DOMAIN azDeletes : \A p \in ps : azDeletes[d][p] = 0

Begin(c, o, firstPc, ps) ==
    [IdleCall EXCEPT !.op = o, !.pc = firstPc, !.paths = ps,
                     !.clean = NoDeleteInFlight(ps),
                     !.preAz = azure, !.preS3 = s3, !.preLocal = local[c]]

\* A backend change on blobs ps made by someone else than the call cl.
Foreign(cl, ps) ==
    IF cl.pc # "idle" /\ cl.paths \cap ps # {}
    THEN [cl EXCEPT !.clean = FALSE,
                    !.instants =
                        IF cl.op = "storagesContainingFile"
                           /\ cl.pc \in {"probeA", "probeB"}
                        THEN @ \cup {Holders(azure', s3',
                                             CHOOSE p \in cl.paths : TRUE)}
                        ELSE @]
    ELSE cl

\* The previous call is remembered while nobody else changes its blobs.
Forget(d, ps) == IF last[d].paths \cap ps # {} THEN IdleCall ELSE last[d]

\* The runtime terminates the process: on an uncaught exception, and (node
\* 15 and later, by default) on a promise rejected with no handler attached.
\* Every call in flight stays unanswered and no call is made afterwards.
Running == process = "running"
Exit == process' = "exited"

Set(c, rec) ==
    /\ Running
    /\ call' = [call EXCEPT ![c] = rec]
    /\ UNCHANGED <<last, client, asked, process>>

SetMutating(c, rec, ps) ==
    /\ Running
    /\ call' = [d \in DOMAIN call |-> IF d = c THEN rec ELSE Foreign(call[d], ps)]
    /\ last' = [d \in DOMAIN last |-> IF d = c THEN last[d] ELSE Forget(d, ps)]
    /\ UNCHANGED <<client, asked, process>>

\* Calls whose outcome is remembered, and calls across which it is kept.
Remembered == {"downloadFileToDiskAndReplicateIfNecessary",
               "uploadFileToStorage", "deleteFiles", "deleteFile"}
DeleteOps == {"deleteFiles", "deleteFile"}
Followers == {"storagesContainingFile", "fileExists",
              "downloadFileToDiskAndReplicateIfNecessary"}

\* What is remembered of a call: its arguments, its outcome, and which
\* backends held its blobs when it started.
Held(pre) == [p \in Paths |-> IF pre[p] = Absent THEN Absent ELSE 1]

Summary(cl, dst) ==
    [IdleCall EXCEPT !.op = cl.op, !.paths = cl.paths,
                     !.storageToUse = EffectiveStorage(cl.storageToUse),
                     !.found = cl.found, !.result = cl.result,
                     !.faults = cl.faults, !.stored = cl.stored,
                     !.preAz = Held(cl.preAz), !.preS3 = Held(cl.preS3),
                     !.preLocal = dst]

Start(c, rec) ==
    /\ Running
    /\ client.multi.azureBlobStorageClient = "object"
    /\ call' = [call EXCEPT ![c] = rec]
    /\ UNCHANGED <<client, asked, process>>
    /\ last' = [last EXCEPT ![c] =
                   IF rec.op \in Followers /\ rec.paths \subseteq @.paths
                   THEN @ ELSE IdleCall]

ThePath(cl) == CHOOSE p \in cl.paths : TRUE

LocateOps == {"storagesContainingFile", "fileExists", "downloadFile",
              "downloadFileToDisk", "downloadFileToDiskAndReplicateIfNecessary"}

Init ==
    /\ azure = [p \in Paths |-> Absent]
    /\ s3 = [p \in Paths |-> Absent]
    /\ local = [c \in {"c1"} |-> Absent]
    /\ azDeletes = [c \in {"c1"} |-> [p \in Paths |-> 0]]
    /\ call = [c \in {"c1"} |-> IdleCall]
    /\ last = [c \in {"c1"} |-> IdleCall]
    /\ client = InitializedWith(DefaultScope, DefaultScope)
    /\ asked = NotAsked
    /\ process = "running"

\* ------------------------------------------------- presence-based calls
StartLocateOp(c, o, p) ==
    /\ call[c].pc = "idle"
    /\ Start(c, [Begin(c, o, "probeA", {p}) EXCEPT
                  !.probed = {AzureBlobStorage},
                  !.instants = IF o = "storagesContainingFile"
                               THEN {Holders(azure, s3, p)} ELSE {}])
    /\ UNCHANGED <<azure, s3, local, azDeletes>>

StoragesContainingFile(c, p) == StartLocateOp(c, "storagesContainingFile", p)
FileExists(c, p) == StartLocateOp(c, "fileExists", p)
DownloadFile(c, p) == StartLocateOp(c, "downloadFile", p)
DownloadFileToDisk(c, p) == StartLocateOp(c, "downloadFileToDisk", p)
DownloadFileToDiskAndReplicateIfNecessary(c, p) ==
    StartLocateOp(c, "downloadFileToDiskAndReplicateIfNecessary", p)

\* Mutant: the answer is taken from what the container held when the call
\* began, not from the probe.
ProbeAzure_AnswersFromCallStart(c, fault) ==
    LET cl == call[c] IN
    /\ cl.pc = "probeA"
    /\ Set(c, [cl EXCEPT !.pc = "probeB", !.probed = @ \cup {AwsS3},
                  !.seenAz = azure[ThePath(cl)],
                  !.fileExistsBlob =
                      AzureFileExists(cl.preAz[ThePath(cl)], fault),
                  !.faults = IF fault THEN @ \cup {"probeA"} ELSE @])
    /\ UNCHANGED <<azure, s3, local, azDeletes>>

\* First element of the array handed to Promise.all: the element is itself
\* an await expression, so the Azure probe has settled before the second
\* element is evaluated and the S3 probe issued.
ProbeAzure(c, fault) ==
    LET cl == call[c] IN
    /\ cl.pc = "probeA"
    /\ Set(c, [cl EXCEPT !.pc = "probeB", !.probed = @ \cup {AwsS3},
                  !.seenAz = azure[ThePath(cl)],
                  !.fileExistsBlob = AzureFileExists(azure[ThePath(cl)], fault),
                  !.faults = IF fault THEN @ \cup {"probeA"} ELSE @])
    /\ UNCHANGED <<azure, s3, local, azDeletes>>

\* What the caller of storagesContainingFile does with the answer, up to
\* its next adapter call.
AfterLocate(cl, found) ==
    CASE cl.op = "storagesContainingFile" ->
            [cl EXCEPT !.pc = "done", !.found = found,
                       !.result = [kind |-> "set", val |-> found]]
      [] cl.op = "fileExists" ->
            [cl EXCEPT !.pc = "done", !.found = found,
                       !.result = [kind |-> "bool",
                                   val |-> IF FileExistsResult(found)
                                           THEN 1 ELSE 0]]
      [] cl.op = "downloadFile" ->
            IF found = Undefined
            THEN [cl EXCEPT !.pc = "done", !.found = found,
                            !.result = [kind |-> ERROR_CODE_NOT_FOUND, val |-> 0]]
            ELSE IF HasAzure(found)
            \* AzureBlobStorageClient.downloadFile throws; the catch returns it
            THEN [cl EXCEPT !.pc = "done", !.found = found,
                            !.result = [kind |-> "notImplemented", val |-> 0]]
            ELSE [cl EXCEPT !.pc = "fetch", !.found = found]
      [] OTHER ->
            IF found = Undefined
            THEN [cl EXCEPT !.pc = "done", !.found = found,
                            !.result = [kind |-> ERROR_CODE_NOT_FOUND, val |-> 0]]
            ELSE [cl EXCEPT !.pc = "fetch", !.found = found]

ProbeS3(c, fault) ==
    LET cl == call[c]
        found == StoragesContaining(cl.fileExistsBlob,
                                    AwsFileExists(s3[ThePath(cl)], fault))
        cl2 == [cl EXCEPT !.seenS3 = s3[ThePath(cl)],
                          !.faults = IF fault THEN @ \cup {"probeB"} ELSE @]
    IN
    /\ cl.pc = "probeB"
    /\ Set(c, AfterLocate(cl2, found))
    /\ UNCHANGED <<azure, s3, local, azDeletes>>

FetchSource(cl) ==
    IF cl.op = "downloadFileToDiskAndReplicateIfNecessary"
    THEN ReplicateSource(cl.found) ELSE DownloadSource(cl.found)

\* The call after a successful fetch.
AfterFetch(cl, from) ==
    IF cl.op = "downloadFileToDiskAndReplicateIfNecessary"
       /\ ReplicateTarget(cl.found) # Undefined
    THEN [cl EXCEPT !.pc = "push", !.fetched = @ \cup {from}]
    ELSE [cl EXCEPT !.pc = "done", !.fetched = @ \cup {from},
                    !.result = [kind |-> "null", val |-> 0]]

\* Mutant: when the download from Azure fails and S3 was found to hold the
\* file, the file is downloaded from S3 instead.
FetchAzure_FallsBackToS3(c, ok, left) ==
    LET cl == call[c]
        p == ThePath(cl)
    IN
    /\ cl.pc = "fetch" /\ FetchSource(cl) = AzureBlobStorage
    /\ ok => azure[p] # Absent
    /\ IF ok
       THEN /\ local' = [local EXCEPT ![c] = azure[p]]
            /\ Set(c, AfterFetch(cl, AzureBlobStorage))
       ELSE IF HasAws(cl.found) /\ s3[p] # Absent
       THEN /\ local' = [local EXCEPT ![c] = s3[p]]
            /\ Set(c, [cl EXCEPT !.pc = "done",
                          !.fetched = @ \cup {AzureBlobStorage, AwsS3},
                          !.faults = @ \cup {"fetch"},
                          !.result = [kind |-> "null", val |-> 0]])
       ELSE /\ local' = [local EXCEPT ![c] = left]
            /\ Set(c, [cl EXCEPT !.pc = "done",
                          !.fetched = @ \cup {AzureBlobStorage},
                          !.faults = @ \cup {"fetch"},
                          !.result = [kind |-> "azureError", val |-> 0]])
    /\ UNCHANGED <<azure, s3, azDeletes>>

\* AzureBlobStorageClient.downloadFileToDisk settles.  What a failed
\* getBlobToLocalFile leaves at localFilePath is the SDK's business: no
\* file, a partial file, or the file that was there.
FetchAzure(c, ok, left) ==
    LET cl == call[c]
        p == ThePath(cl)
    IN
    /\ cl.pc = "fetch" /\ FetchSource(cl) = AzureBlobStorage
    /\ ok => azure[p] # Absent
    /\ IF ok
       THEN /\ local' = [local EXCEPT ![c] = azure[p]]
            /\ Set(c, AfterFetch(cl, AzureBlobStorage))
       ELSE /\ local' = [local EXCEPT ![c] = left]
            /\ Set(c, [cl EXCEPT !.pc = "done",
                          !.fetched = @ \cup {AzureBlobStorage},
                          !.faults = @ \cup {"fetch"},
                          !.result = [kind |-> "azureError", val |-> 0]])
    /\ UNCHANGED <<azure, s3, azDeletes>>

\* The calls that fetch to the local destination file.
ToDisk(cl) == cl.op \in {"downloadFileToDisk",
                         "downloadFileToDiskAndReplicateIfNecessary"}

\* AwsS3Client.downloadFileToDisk, before the request is answered: the
\* write stream it created opens localFilePath, which creates the file or
\* truncates the one that is there.
OpenWriteStream(c) ==
    LET cl == call[c] IN
    /\ cl.pc = "fetch" /\ FetchSource(cl) = AwsS3
    /\ ToDisk(cl) /\ ~cl.streamOpen
    /\ local' = [local EXCEPT ![c] = Partial]
    /\ Set(c, [cl EXCEPT !.streamOpen = TRUE])
    /\ UNCHANGED <<azure, s3, azDeletes>>

\* The 'error' handler of the read stream calls fs.unlink(localFilePath)
\* with no callback, which node 10 and later answer with a TypeError thrown
\* in the handler: nothing is unlinked, reject is not reached and the
\* uncaught exception terminates the process.
StreamErrorExits(c) ==
    /\ Running /\ Exit
    /\ call' = [call EXCEPT ![c].faults = @ \cup {"fetch"}]
    /\ UNCHANGED <<local, last, client, asked>>

\* Mutant: a successful downloadFile from S3 removes the object it read.
FetchS3_ConsumesObject(c, ok) ==
    LET cl == call[c]
        p == ThePath(cl)
    IN
    /\ cl.pc = "fetch" /\ FetchSource(cl) = AwsS3
    /\ ok => s3[p] # Absent
    /\ ToDisk(cl) => cl.streamOpen
    /\ IF cl.op = "downloadFile"
       THEN /\ UNCHANGED local
            /\ s3' = IF ok THEN [s3 EXCEPT ![p] = Absent] ELSE s3
            /\ Set(c, [cl EXCEPT !.pc = "done", !.fetched = @ \cup {AwsS3},
                          !.faults = IF ok THEN @ ELSE @ \cup {"fetch"},
                          !.result = IF ok THEN [kind |-> "payload", val |-> s3[p]]
                                     ELSE [kind |-> "s3Error", val |-> 0]])
       ELSE IF ok
       THEN /\ local' = [local EXCEPT ![c] = s3[p]]
            /\ UNCHANGED s3
            /\ Set(c, AfterFetch(cl, AwsS3))
       ELSE /\ UNCHANGED s3
            /\ \/ /\ local' = [local EXCEPT ![c] = Absent]
                  /\ Set(c, [cl EXCEPT !.pc = "done",
                                !.fetched = @ \cup {AwsS3},
                                !.faults = @ \cup {"fetch"},
                                !.result = [kind |-> "s3Error", val |-> 0]])
               \/ StreamErrorExits(c)
    /\ UNCHANGED <<azure, azDeletes>>

\* AwsS3Client.downloadFile / downloadFileToDisk settles.  On a stream
\* error downloadFileToDisk unlinks the file and rejects where the runtime
\* accepts unlink without a callback, and the process ends where it does not.
FetchS3(c, ok) ==
    LET cl == call[c]
        p == ThePath(cl)
    IN
    /\ cl.pc = "fetch" /\ FetchSource(cl) = AwsS3
    /\ ok => s3[p] # Absent
    /\ ToDisk(cl) => cl.streamOpen
    /\ IF cl.op = "downloadFile"
       THEN /\ UNCHANGED local
            /\ Set(c, [cl EXCEPT !.pc = "done", !.fetched = @ \cup {AwsS3},
                          !.faults = IF ok THEN @ ELSE @ \cup {"fetch"},
                          !.result = IF ok THEN [kind |-> "payload", val |-> s3[p]]
                                     ELSE [kind |-> "s3Error", val |-> 0]])
       ELSE IF ok
       THEN /\ local' = [local EXCEPT ![c] = s3[p]]
            /\ Set(c, AfterFetch(cl, AwsS3))
       ELSE \/ /\ local' = [local EXCEPT ![c] = Absent]
               /\ Set(c, [cl EXCEPT !.pc = "done",
                             !.fetched = @ \cup {AwsS3},
                             !.faults = @ \cup {"fetch"},
                             !.result = [kind |-> "s3Error", val |-> 0]])
            \/ StreamErrorExits(c)
    /\ UNCHANGED <<azure, s3, azDeletes>>

\* Mutant: the store refuses to overwrite an object the target holds.
Push_RejectsOverwrite(c, ok) ==
    LET cl == call[c]
        p == ThePath(cl)
        to == ReplicateTarget(cl.found)
        free == IF to = AwsS3 THEN s3[p] = Absent ELSE azure[p] = Absent
        rec == [cl EXCEPT !.pc = "done", !.stored = @ \cup {to},
                   !.faults = IF ok THEN @ ELSE @ \cup {"push"},
                   !.result = IF ok /\ free THEN [kind |-> "null", val |-> 0]
                              ELSE IF to = AwsS3 THEN [kind |-> "s3Error", val |-> 0]
                              ELSE [kind |-> "azureError", val |-> 0]]
    IN
    /\ cl.pc = "push"
    /\ ok => local[c] \in Content
    /\ IF ok /\ free /\ to = AwsS3
       THEN s3' = [s3 EXCEPT ![p] = local[c]] /\ UNCHANGED azure
       ELSE IF ok /\ free /\ to = AzureBlobStorage
       THEN azure' = [azure EXCEPT ![p] = local[c]] /\ UNCHANGED s3
       ELSE UNCHANGED <<azure, s3>>
    /\ IF ok /\ free THEN SetMutating(c, rec, {p}) ELSE Set(c, rec)
    /\ UNCHANGED <<local, azDeletes>>

\* Mutant: a failed upload after the download is not reported.
Push_SwallowsError(c, ok) ==
    LET cl == call[c]
        p == ThePath(cl)
        to == ReplicateTarget(cl.found)
        rec == [cl EXCEPT !.pc = "done", !.stored = @ \cup {to},
                   !.faults = IF ok THEN @ ELSE @ \cup {"push"},
                   !.result = [kind |-> "null", val |-> 0]]
    IN
    /\ cl.pc = "push"
    /\ ok => local[c] \in Content
    /\ IF ok /\ to = AwsS3
       THEN s3' = [s3 EXCEPT ![p] = local[c]] /\ UNCHANGED azure
       ELSE IF ok /\ to = AzureBlobStorage
       THEN azure' = [azure EXCEPT ![p] = local[c]] /\ UNCHANGED s3
       ELSE UNCHANGED <<azure, s3>>
    /\ IF ok THEN SetMutating(c, rec, {p}) ELSE Set(c, rec)
    /\ UNCHANGED <<local, azDeletes>>

\* Mutant: the upload moves the object: the source's copy is deleted.
Push_MovesObject(c, ok) ==
    LET cl == call[c]
        p == ThePath(cl)
        to == ReplicateTarget(cl.found)
        rec == [cl EXCEPT !.pc = "done", !.stored = @ \cup {to},
                   !.faults = IF ok THEN @ ELSE @ \cup {"push"},
                   !.result = IF ok THEN [kind |-> "null", val |-> 0]
                              ELSE IF to = AwsS3 THEN [kind |-> "s3Error", val |-> 0]
                              ELSE [kind |-> "azureError", val |-> 0]]
    IN
    /\ cl.pc = "push"
    /\ ok => local[c] \in Content
    /\ IF ok /\ to = AwsS3
       THEN /\ s3' = [s3 EXCEPT ![p] = local[c]]
            /\ azure' = [azure EXCEPT ![p] = Absent]
       ELSE IF ok /\ to = AzureBlobStorage
       THEN /\ azure' = [azure EXCEPT ![p] = local[c]]
            /\ s3' = [s3 EXCEPT ![p] = Absent]
       ELSE UNCHANGED <<azure, s3>>
    /\ IF ok THEN SetMutating(c, rec, {p}) ELSE Set(c, rec)
    /\ UNCHANGED <<local, azDeletes>>

\* The replication push: uploadFile of the downloaded local file to the
\* backend that lacked the object.
Push(c, ok) ==
    LET cl == call[c]
        p == ThePath(cl)
        to == ReplicateTarget(cl.found)
        rec == [cl EXCEPT !.pc = "done", !.stored = @ \cup {to},
                   !.faults = IF ok THEN @ ELSE @ \cup {"push"},
                   !.result = IF ok THEN [kind |-> "null", val |-> 0]
                              ELSE IF to = AwsS3 THEN [kind |-> "s3Error", val |-> 0]
                              ELSE [kind |-> "azureError", val |-> 0]]
    IN
    /\ cl.pc = "push"
    /\ ok => local[c] \in Content
    /\ IF ok /\ to = AwsS3
       THEN s3' = [s3 EXCEPT ![p] = local[c]] /\ UNCHANGED azure
       ELSE IF ok /\ to = AzureBlobStorage
       THEN azure' = [azure EXCEPT ![p] = local[c]] /\ UNCHANGED s3
       ELSE UNCHANGED <<azure, s3>>
    /\ IF ok THEN SetMutating(c, rec, {p}) ELSE Set(c, rec)
    /\ UNCHANGED <<local, azDeletes>>

\* ------------------------------------------------------------- the write
\* uploadFileToStorage up to its first await: both uploads are issued.
UploadFileToStorage(c, src, p, storageToUse) ==
    LET eff == EffectiveStorage(storageToUse) IN
    /\ call[c].pc = "idle"
    /\ Start(c, [Begin(c, "uploadFileToStorage", "stores", {p}) EXCEPT
                  !.src = src, !.storageToUse = storageToUse,
                  !.stA = IF HasAzure(eff) THEN "pending" ELSE "none",
                  !.stB = IF HasAws(eff) THEN "pending" ELSE "none",
                  !.stored = {b \in {AzureBlobStorage, AwsS3} :
                                 IF b = AzureBlobStorage THEN HasAzure(eff)
                                 ELSE HasAws(eff)}])
    /\ UNCHANGED <<azure, s3, local, azDeletes>>

\* AzureBlobStorageClient.uploadFile settles and is awaited.
AzureStoreSettle(c, ok) ==
    LET cl == call[c]
        p == ThePath(cl)
        rec == [cl EXCEPT !.stA = IF ok THEN "ok" ELSE "err",
                          !.faults = IF ok THEN @ ELSE @ \cup {"storeA"}]
    IN
    /\ cl.pc = "stores" /\ cl.stA = "pending"
    /\ UNCHANGED <<s3, local, azDeletes>>
    /\ IF ok
       THEN azure' = [azure EXCEPT ![p] = cl.src] /\ SetMutating(c, rec, {p})
       ELSE UNCHANGED azure /\ Set(c, rec)

\* AwsS3Client.uploadFile settles.  Its promise gets a handler only at
\* `await awsPromise`, after the Azure upload has been awaited: rejected
\* while the Azure upload is pending it is a rejection without handler, on
\* which the runtime either warns and goes on or terminates the process.
S3StoreSettle(c, ok) ==
    LET cl == call[c]
        p == ThePath(cl)
        rec == [cl EXCEPT !.stB = IF ok THEN "ok" ELSE "err",
                          !.faults = IF ok THEN @ ELSE @ \cup {"storeB"}]
    IN
    /\ cl.pc = "stores" /\ cl.stB = "pending"
    /\ UNCHANGED <<azure, local, azDeletes>>
    /\ IF ok
       THEN s3' = [s3 EXCEPT ![p] = cl.src] /\ SetMutating(c, rec, {p})
       ELSE /\ UNCHANGED s3
            /\ \/ Set(c, rec)
               \/ /\ Running /\ cl.stA = "pending"
                  /\ Exit
                  /\ call' = [call EXCEPT ![c] = rec]
                  /\ UNCHANGED <<last, client, asked>>

\* Both awaits passed: the set of storages is returned.
UploadReturn(c) ==
    LET cl == call[c] IN
    /\ cl.pc = "stores" /\ cl.stA # "pending" /\ cl.stB # "pending"
    /\ Set(c, [cl EXCEPT !.pc = "done",
                  !.result = [kind |-> "set",
                              val |-> UploadedStorages(cl.stA, cl.stB)]])
    /\ UNCHANGED <<azure, s3, local, azDeletes>>

\* ------------------------------------------------------------ the delete
\* deleteFiles up to its awaits: one deleteBlob per blob is handed to the
\* Azure SDK with an empty callback, one deleteObjects request goes to S3.
StartDelete(c, o, ps) ==
    /\ call[c].pc = "idle"
    /\ \A p \in ps : azDeletes[c][p] < MaxPendingDeletes
    /\ azDeletes' = [azDeletes EXCEPT ![c] =
                        [p \in Paths |-> IF p \in ps THEN @[p] + 1 ELSE @[p]]]
    /\ Start(c, Begin(c, o, "s3del", ps))
    /\ UNCHANGED <<azure, s3, local>>

DeleteFiles(c, ps) == StartDelete(c, "deleteFiles", ps)

\* Mutant: deleteFile asks only S3.
DeleteFile_OnlyS3(c, p) ==
    /\ call[c].pc = "idle"
    /\ Start(c, Begin(c, "deleteFile", "s3del", {p}))
    /\ UNCHANGED <<azure, s3, local, azDeletes>>

\* deleteFile: deleteFiles([filePath]).
DeleteFile(c, p) == StartDelete(c, "deleteFile", {p})

\* The deleteObjects request settles; deleteFiles returns.
S3DeleteSettle(c, ok) ==
    LET cl == call[c]
        rec == [cl EXCEPT !.pc = "done",
                          !.result = DeleteResult(
                                        AzureDeleteFilesResolves(cl.paths), ok),
                          !.faults = IF ok THEN @ ELSE @ \cup {"s3del"}]
    IN
    /\ cl.pc = "s3del"
    /\ UNCHANGED <<azure, local, azDeletes>>
    /\ IF ok
       THEN /\ s3' = [p \in Paths |-> IF p \in cl.paths THEN Absent ELSE s3[p]]
            /\ SetMutating(c, rec, cl.paths)
       ELSE UNCHANGED s3 /\ Set(c, rec)

\* A deleteBlob request issued by caller o is applied by the service (or
\* fails); nobody waits for it and its callback ignores the outcome.
AzureDeleteLand(o, p, ok) ==
    LET own(d) == d = o /\ call[d].op \in DeleteOps /\ p \in call[d].paths
                  /\ call[d].clean
    IN
    /\ Running /\ azDeletes[o][p] > 0
    /\ UNCHANGED <<s3, local, client, asked, process>>
    /\ ok => azure[p] # Absent
    /\ azDeletes' = [azDeletes EXCEPT ![o][p] = @ - 1]
    /\ azure' = IF ok THEN [azure EXCEPT ![p] = Absent] ELSE azure
    /\ call' = [d \in DOMAIN call |->
                  IF own(d)
                  THEN [call[d] EXCEPT !.faults =
                            IF ok THEN @ ELSE @ \cup {"azdel"}]
                  ELSE Foreign(call[d], {p})]
    /\ last' = [d \in DOMAIN last |->
                  IF d = o /\ last[d].op \in DeleteOps THEN last[d]
                  ELSE Forget(d, {p})]

\* AzureBlobStorageClient.deleteFile, called on the adapter: one deleteBlob
\* request whose callback settles the promise the caller awaits.
AzureDeleteFile(c, p) ==
    /\ Running /\ call[c].pc = "idle"
    /\ client.azure.azureBlobService = "object"
    /\ call' = [call EXCEPT ![c] =
                  Begin(c, "AzureBlobStorageClient.deleteFile", "azdel", {p})]
    /\ last' = [last EXCEPT ![c] = IdleCall]
    /\ UNCHANGED <<azure, s3, local, azDeletes, client, asked, process>>

\* The deleteBlob request is answered: the blob is removed and the promise
\* resolves with the response, or it rejects with the error (a blob that
\* is not there is an error).
AzureDeleteFileSettle(c, ok) ==
    LET cl == call[c]
        p == ThePath(cl)
        rec == [cl EXCEPT !.pc = "done",
                          !.result = [kind |-> IF ok THEN "response"
                                               ELSE "azureError", val |-> 0],
                          !.faults = IF ok THEN @ ELSE @ \cup {"deleteBlob"}]
    IN
    /\ cl.pc = "azdel"
    /\ ok => azure[p] # Absent
    /\ UNCHANGED <<s3, local, azDeletes>>
    /\ IF ok
       THEN azure' = [azure EXCEPT ![p] = Absent] /\ SetMutating(c, rec, {p})
       ELSE UNCHANGED azure /\ Set(c, rec)

\* AwsS3Client.deleteFile, called on the adapter: the promise executor is a
\* plain function, `this` is undefined in it, and reading this.s3Client
\* throws: the promise rejects with a TypeError and no request is made.
AwsDeleteFile(c, p) ==
    /\ Running /\ call[c].pc = "idle"
    /\ call' = [call EXCEPT ![c] =
                  [Begin(c, "AwsS3Client.deleteFile", "done", {p}) EXCEPT
                      !.result = [kind |-> "TypeError", val |-> 0]]]
    /\ last' = [last EXCEPT ![c] = IdleCall]
    /\ UNCHANGED <<azure, s3, local, azDeletes, client, asked, process>>

\* ----------------------------------------------------------- the listing
\* listFileNamesWithPrefix up to its first await: the Azure listing is
\* requested.
ListFileNamesWithPrefix(c, prefix) ==
    /\ call[c].pc = "idle"
    /\ Start(c, [Begin(c, "listFileNamesWithPrefix", "listA",
                       {p \in Paths : StartsWith(p, prefix)})
                  EXCEPT !.prefix = prefix])
    /\ UNCHANGED <<azure, s3, local, azDeletes>>

\* listFilesWithPrefix up to its first await: the Azure listing is
\* requested.
ListFilesWithPrefix(c, prefix) ==
    /\ call[c].pc = "idle"
    /\ Start(c, [Begin(c, "listFilesWithPrefix", "listA",
                       {p \in Paths : StartsWith(p, prefix)})
                  EXCEPT !.prefix = prefix])
    /\ UNCHANGED <<azure, s3, local, azDeletes>>

\* The Azure listing settles inside the try block: a rejection is logged
\* and fileNames (blobsFoundInAzureBlobStorage) stays empty (null).  The S3
\* listing is requested next.
AzureListSettle(c, ok) ==
    LET cl == call[c] IN
    /\ cl.pc = "listA"
    /\ Set(c, [cl EXCEPT !.pc = "listB",
                  !.fileNames = IF ok THEN ListedNames(azure, cl.prefix)
                                ELSE << >>,
                  !.faults = IF ok THEN @ ELSE @ \cup {"listA"}])
    /\ UNCHANGED <<azure, s3, local, azDeletes>>

\* The S3 listing settles outside any try block: a rejection rejects the
\* call.
S3ListSettle(c, ok) ==
    LET cl == call[c] IN
    /\ cl.pc = "listB"
    /\ Set(c, IF ok /\ cl.op = "listFilesWithPrefix"
              THEN [cl EXCEPT !.pc = "done",
                       !.filesFoundInS3 = ListedNames(s3, cl.prefix),
                       !.result = [kind |-> "files", val |-> 0]]
              ELSE IF ok
              THEN [cl EXCEPT !.pc = "done",
                       !.fileNames = ListFileNamesResult(
                                        @, ListedNames(s3, cl.prefix)),
                       !.result = [kind |-> "names", val |-> 0]]
              ELSE [cl EXCEPT !.pc = "done", !.fileNames = << >>,
                       !.faults = @ \cup {"listB"},
                       !.result = [kind |-> "s3Error", val |-> 0]])
    /\ UNCHANGED <<azure, s3, local, azDeletes>>

\* The caller has taken the outcome of its call.
Return(c) ==
    /\ Running /\ call[c].pc = "done"
    /\ call' = [call EXCEPT ![c] = IdleCall]
    /\ last' = [last EXCEPT ![c] =
                   IF call[c].clean /\ call[c].op \in Remembered
                   THEN Summary(call[c], local[c]) ELSE IdleCall]
    /\ UNCHANGED <<azure, s3, local, azDeletes, client, asked, process>>

Next ==
    \E c \in DOMAIN call :
        \/ \E p \in Paths : StoragesContainingFile(c, p)
        \/ \E p \in Paths : FileExists(c, p)
        \/ \E p \in Paths : DownloadFile(c, p)
        \/ \E p \in Paths : DownloadFileToDisk(c, p)
        \/ \E p \in Paths : DownloadFileToDiskAndReplicateIfNecessary(c, p)
        \/ \E f \in BOOLEAN : ProbeAzure(c, f)
        \/ \E f \in BOOLEAN : ProbeS3(c, f)
        \/ \E ok \in BOOLEAN, left \in {Absent, Partial, local[c]} :
               FetchAzure(c, ok, left)
        \/ OpenWriteStream(c)
        \/ \E ok \in BOOLEAN : FetchS3(c, ok)
        \/ \E ok \in BOOLEAN : Push(c, ok)
        \/ \E src \in Content, p \in Paths, t \in StorageType :
               UploadFileToStorage(c, src, p, t)
        \/ \E ok \in BOOLEAN : AzureStoreSettle(c, ok)
        \/ \E ok \in BOOLEAN : S3StoreSettle(c, ok)
        \/ UploadReturn(c)
        \/ \E ps \in SUBSET Paths : DeleteFiles(c, ps)
        \/ \E p \in Paths : DeleteFile(c, p)
        \/ \E ok \in BOOLEAN : S3DeleteSettle(c, ok)
        \/ \E p \in Paths, ok \in BOOLEAN : AzureDeleteLand(c, p, ok)
        \/ \E p \in Paths : AzureDeleteFile(c, p)
        \/ \E ok \in BOOLEAN : AzureDeleteFileSettle(c, ok)
        \/ \E p \in Paths : AwsDeleteFile(c, p)
        \/ \E prefix \in Prefixes : ListFileNamesWithPrefix(c, prefix)
        \/ \E prefix \in Prefixes : ListFilesWithPrefix(c, prefix)
        \/ \E ok \in BOOLEAN : AzureListSettle(c, ok)
        \/ \E ok \in BOOLEAN : S3ListSettle(c, ok)
        \/ Return(c)

Spec == Init /\ [][Next]_vars

\* ------------------------------------------- two racing replicating reads
\* Two callers each make one replicating read of an object that only Azure
\* holds, each to a destination file of its own; a third caller locates the
\* object once both reads have returned.
Racers == {"c1", "c2"}
Observer == "c3"

InitRace ==
    /\ \E v \in Content : azure = [p \in Paths |-> v]
    /\ s3 = [p \in Paths |-> Absent]
    /\ local = [c \in Racers \cup {Observer} |-> Absent]
    /\ azDeletes = [c \in Racers \cup {Observer} |-> [p \in Paths |-> 0]]
    /\ call = [c \in Racers \cup {Observer} |-> IdleCall]
    /\ last = [c \in Racers \cup {Observer} |-> IdleCall]
    /\ client = InitializedWith(DefaultScope, DefaultScope)
    /\ asked = NotAsked
    /\ process = "running"

RaceRead(c, p) ==
    /\ c \in Racers
    /\ DownloadFileToDiskAndReplicateIfNecessary(c, p)

RaceOver ==
    \A c \in Racers :
        call[c].pc = "done"
        /\ call[c].op = "downloadFileToDiskAndReplicateIfNecessary"

RaceLocate(c, p) ==
    /\ c = Observer /\ RaceOver
    /\ StoragesContainingFile(c, p)

RaceReturn(c) == c = Observer /\ Return(c)

\* The steps of the call caller c is in.
CallStep(c) ==
    \/ \E f \in BOOLEAN : ProbeAzure(c, f)
    \/ \E f \in BOOLEAN : ProbeS3(c, f)
    \/ \E ok \in BOOLEAN, left \in {Absent, Partial, local[c]} :
           FetchAzure(c, ok, left)
    \/ OpenWriteStream(c)
    \/ \E ok \in BOOLEAN : FetchS3(c, ok)
    \/ \E ok \in BOOLEAN : Push(c, ok)

RacerStep(c) == (\E p \in Paths : RaceRead(c, p)) \/ CallStep(c)

NextRace ==
    \E c \in DOMAIN call :
        \/ \E p \in Paths : RaceRead(c, p)
        \/ CallStep(c)
        \/ \E p \in Paths : RaceLocate(c, p)
        \/ RaceReturn(c)

\* Each racer makes its call, and every adapter call it has issued settles.
SpecRace ==
    InitRace /\ [][NextRace]_vars /\ \A c \in Racers : WF_vars(RacerStep(c))

\* ------------------------------ writes racing with a replicating read
\* One caller writes the path to both storages, again and again and with
\* any content, while another makes replicating reads of it.  Every adapter
\* call is answered.
Writer == "c1"
Reader == "c2"

InitWrites ==
    /\ azure = [p \in Paths |-> Absent]
    /\ s3 = [p \in Paths |-> Absent]
    /\ local = [c \in {Writer, Reader} |-> Absent]
    /\ azDeletes = [c \in {Writer, Reader} |-> [p \in Paths |-> 0]]
    /\ call = [c \in {Writer, Reader} |-> IdleCall]
    /\ last = [c \in {Writer, Reader} |-> IdleCall]
    /\ client = InitializedWith(DefaultScope, DefaultScope)
    /\ asked = NotAsked
    /\ process = "running"

WriteToBoth(c, src, p) ==
    /\ c = Writer
    /\ UploadFileToStorage(c, src, p, Both)

ReadReplicating(c, p) ==
    /\ c = Reader
    /\ DownloadFileToDiskAndReplicateIfNecessary(c, p)

NextWrites ==
    \E c \in DOMAIN call :
        \/ \E src \in Content, p \in Paths : WriteToBoth(c, src, p)
        \/ \E p \in Paths : ReadReplicating(c, p)
        \/ ProbeAzure(c, FALSE)
        \/ ProbeS3(c, FALSE)
        \/ FetchAzure(c, TRUE, Absent)
        \/ OpenWriteStream(c)
        \/ FetchS3(c, TRUE)
        \/ Push(c, TRUE)
        \/ AzureStoreSettle(c, TRUE)
        \/ S3StoreSettle(c, TRUE)
        \/ UploadReturn(c)
        \/ Return(c)

SpecWrites == InitWrites /\ [][NextWrites]_vars

\* ------------------- writes and deletes racing with reads and locates
\* One caller uploads and deletes the path, call after call, while another
\* makes one call, a replicating read or a storagesContainingFile.  Probes,
\* uploads and the S3 delete are answered; a download or an Azure delete
\* may fail (its object may be gone).
Mutator == "c1"

InitMixed == InitWrites

MutatorUpload(c, src, p, storageToUse) ==
    /\ c = Mutator
    /\ UploadFileToStorage(c, src, p, storageToUse)

MutatorDelete(c, p) ==
    /\ c = Mutator
    /\ DeleteFiles(c, {p})

ReaderLocate(c, p) ==
    /\ c = Reader
    /\ StoragesContainingFile(c, p)

MutatorReturn(c) == c = Mutator /\ Return(c)

NextMixed ==
    \E c \in DOMAIN call :
        \/ \E p \in Paths, t \in StorageType :
               MutatorUpload(c, TheContent, p, t)
        \/ \E p \in Paths : MutatorDelete(c, p)
        \/ \E p \in Paths : ReadReplicating(c, p)
        \/ \E p \in Paths : ReaderLocate(c, p)
        \/ ProbeAzure(c, FALSE)
        \/ ProbeS3(c, FALSE)
        \/ \E ok \in BOOLEAN : FetchAzure(c, ok, Absent)
        \/ OpenWriteStream(c)
        \/ \E ok \in BOOLEAN : FetchS3(c, ok)
        \/ Push(c, TRUE)
        \/ AzureStoreSettle(c, TRUE)
        \/ S3StoreSettle(c, TRUE)
        \/ UploadReturn(c)
        \/ S3DeleteSettle(c, TRUE)
        \/ \E p \in Paths, ok \in BOOLEAN : AzureDeleteLand(c, p, ok)
        \/ MutatorReturn(c)

SpecMixed == InitMixed /\ [][NextMixed]_vars

\* ------------------------------------- construction, initialize, scopes
\* A coordinator and two adapters of their own have been constructed; no
\* initialize has been called and the storages are not used.
InitClient ==
    /\ azure = [p \in Paths |-> Absent]
    /\ s3 = [p \in Paths |-> Absent]
    /\ local = [c \in {"c1"} |-> Absent]
    /\ azDeletes = [c \in {"c1"} |-> [p \in Paths |-> 0]]
    /\ call = [c \in {"c1"} |-> IdleCall]
    /\ last = [c \in {"c1"} |-> IdleCall]
    /\ client = Constructed
    /\ asked = NotAsked
    /\ process = "running"

\* MultiStorageClient.initialize: creates and initializes both adapters.
InitializeMulti(defaultContainerName, defaultBucketName) ==
    /\ Running
    /\ client' = InitializedWith(defaultContainerName, defaultBucketName)
    /\ asked' = NotAsked
    /\ UNCHANGED <<azure, s3, local, azDeletes, call, last, process>>

\* AzureBlobStorageClient.initialize on an adapter used on its own.
InitializeAzure(defaultContainerName) ==
    /\ Running /\ client.multi.azureBlobStorageClient = "null"
    /\ client' = [client EXCEPT !.azure =
                     [azureBlobService |-> "object",
                      defaultContainerName |-> defaultContainerName]]
    /\ asked' = NotAsked
    /\ UNCHANGED <<azure, s3, local, azDeletes, call, last, process>>

\* AwsS3Client.initialize on an adapter used on its own.
InitializeAws(defaultBucketName) ==
    /\ Running /\ client.multi.awsS3Client = "null"
    /\ client' = [client EXCEPT !.aws =
                     [s3Client |-> "object",
                      defaultBucketName |-> defaultBucketName]]
    /\ asked' = NotAsked
    /\ UNCHANGED <<azure, s3, local, azDeletes, call, last, process>>

\* isInitialized is called on one of the three objects.
IsInitialized(on) ==
    /\ Running
    /\ asked' =
         [NotAsked EXCEPT
            !.op = "isInitialized", !.on = on,
            !.initialized =
                CASE on = "MultiStorageClient" ->
                        client.multi.azureBlobStorageClient = "object"
                  [] on = "AzureBlobStorageClient" ->
                        client.azure.azureBlobService = "object"
                  [] OTHER -> client.aws.s3Client = "object",
            !.out =
                CASE on = "MultiStorageClient" -> MultiIsInitialized(client)
                  [] on = "AzureBlobStorageClient" ->
                        IF AdapterIsInitialized(client.azure.azureBlobService)
                        THEN "true" ELSE "false"
                  [] OTHER ->
                        IF AdapterIsInitialized(client.aws.s3Client)
                        THEN "true" ELSE "false"]
    /\ UNCHANGED <<azure, s3, local, azDeletes, call, last, client, process>>

\* The first two statements of a coordinator operation, up to the names
\* the adapters are called with.
ResolveScopes(op, containerName, bucketName) ==
    /\ Running
    /\ asked' =
         IF client.multi.azureBlobStorageClient = "null"
         THEN [NotAsked EXCEPT !.op = op, !.on = "MultiStorageClient",
                               !.containerName = containerName,
                               !.bucketName = bucketName,
                               !.out = "TypeError"]
         ELSE LET used == ScopesUsed(client, op, containerName, bucketName) IN
              [NotAsked EXCEPT !.op = op, !.on = "MultiStorageClient",
                               !.initialized = TRUE,
                               !.containerName = containerName,
                               !.bucketName = bucketName,
                               !.out = "scopes",
                               !.azure = used.azure, !.aws = used.aws]
    /\ UNCHANGED <<azure, s3, local, azDeletes, call, last, client, process>>

\* uploadFile: hands containerAndBucketName to uploadFileToStorage as the
\* container name and passes no bucket name.  Before initialize the
\* uploadFileToStorage promise is rejected with the TypeError and uploadFile
\* has attached no handler to it: the runtime either warns and goes on or
\* terminates the process, in which case nothing is answered.
UploadFile(containerAndBucketName) ==
    \/ ResolveScopes("uploadFile", containerAndBucketName, NoScope)
    \/ /\ Running /\ client.multi.azureBlobStorageClient = "null"
       /\ Exit
       /\ UNCHANGED <<azure, s3, local, azDeletes, call, last, client, asked>>

NextClient ==
    \/ \E dc \in Scopes, db \in Scopes : InitializeMulti(dc, db)
    \/ \E dc \in Scopes : InitializeAzure(dc)
    \/ \E db \in Scopes : InitializeAws(db)
    \/ \E on \in {"MultiStorageClient", "AzureBlobStorageClient",
                   "AwsS3Client"} : IsInitialized(on)
    \/ \E op \in ScopedOps, cn \in Scopes, bn \in Scopes :
           ResolveScopes(op, cn, bn)
    \/ \E n \in Scopes : UploadFile(n)

SpecClient == InitClient /\ [][NextClient]_vars

\* ------------------------------------------------- calls and their return
\* A client is constructed and at some point initialized; one caller makes
\* calls before and after.  Every adapter call that was issued settles,
\* resolved or rejected.
Caller == "c1"

\* A coordinator method called before initialize: its first statement calls
\* getDefaultContainerName on the null adapter field, so the async method
\* returns a promise rejected with a TypeError.
RejectUninitialized(c, o) ==
    /\ Running /\ call[c].pc = "idle"
    /\ client.multi.azureBlobStorageClient = "null"
    /\ call' = [call EXCEPT ![c] =
                  [Begin(c, o, "done", {}) EXCEPT
                      !.result = [kind |-> "TypeError", val |-> 0]]]
    /\ last' = [last EXCEPT ![c] = IdleCall]
    /\ UNCHANGED <<azure, s3, local, azDeletes, client, asked, process>>

\* uploadFile called before initialize: the uploadFileToStorage promise it
\* wraps is rejected, its then-callback never runs, and the promise
\* uploadFile returned has no other way to settle.  The rejection has no
\* handler: the runtime either warns and goes on or terminates the process.
UploadFileUninitialized(c) ==
    /\ Running /\ call[c].pc = "idle"
    /\ client.multi.azureBlobStorageClient = "null"
    /\ call' = [call EXCEPT ![c] = Begin(c, "uploadFile", "pending", {})]
    /\ last' = [last EXCEPT ![c] = IdleCall]
    /\ UNCHANGED process \/ Exit
    /\ UNCHANGED <<azure, s3, local, azDeletes, client, asked>>

\* uploadFile on an initialized client: uploadFileToStorage to both
\* storages, whose result resolves the promise.
UploadFileCall(c, src, p) ==
    /\ call[c].pc = "idle"
    /\ Start(c, [Begin(c, "uploadFile", "stores", {p}) EXCEPT
                  !.src = src, !.storageToUse = Both,
                  !.stA = "pending", !.stB = "pending",
                  !.stored = {AzureBlobStorage, AwsS3}])
    /\ UNCHANGED <<azure, s3, local, azDeletes>>

\* An adapter call of the caller's call settles, or the call passes its
\* last await.
Settle(c) ==
    \/ \E f \in BOOLEAN : ProbeAzure(c, f)
    \/ \E f \in BOOLEAN : ProbeS3(c, f)
    \/ \E ok \in BOOLEAN : FetchAzure(c, ok, Absent)
    \/ OpenWriteStream(c)
    \/ \E ok \in BOOLEAN : FetchS3(c, ok)
    \/ \E ok \in BOOLEAN : Push(c, ok)
    \/ \E ok \in BOOLEAN : AzureStoreSettle(c, ok)
    \/ \E ok \in BOOLEAN : S3StoreSettle(c, ok)
    \/ UploadReturn(c)
    \/ \E ok \in BOOLEAN : S3DeleteSettle(c, ok)
    \/ \E ok \in BOOLEAN : AzureListSettle(c, ok)
    \/ \E ok \in BOOLEAN : S3ListSettle(c, ok)

DeleteLands(c) == \E p \in Paths, ok \in BOOLEAN : AzureDeleteLand(c, p, ok)

NextLive ==
    \/ InitializeMulti(DefaultScope, DefaultScope)
    \/ \E o \in ScopedOps : RejectUninitialized(Caller, o)
    \/ UploadFileUninitialized(Caller)
    \/ \E p \in Paths : UploadFileCall(Caller, TheContent, p)
    \/ \E p \in Paths : StoragesContainingFile(Caller, p)
    \/ \E p \in Paths : FileExists(Caller, p)
    \/ \E p \in Paths : DownloadFile(Caller, p)
    \/ \E p \in Paths : DownloadFileToDisk(Caller, p)
    \/ \E p \in Paths : DownloadFileToDiskAndReplicateIfNecessary(Caller, p)
    \/ \E p \in Paths, t \in StorageType :
           UploadFileToStorage(Caller, TheContent, p, t)
    \/ \E ps \in SUBSET Paths : DeleteFiles(Caller, ps)
    \/ \E p \in Paths : DeleteFile(Caller, p)
    \/ \E prefix \in Prefixes : ListFileNamesWithPrefix(Caller, prefix)
    \/ \E prefix \in Prefixes : ListFilesWithPrefix(Caller, prefix)
    \/ Settle(Caller)
    \/ DeleteLands(Caller)
    \/ Return(Caller)

SpecLive ==
    /\ InitClient /\ [][NextLive]_vars
    /\ WF_vars(Settle(Caller)) /\ WF_vars(DeleteLands(Caller))

\* ============================================================ properties
ReplicateOp == "downloadFileToDiskAndReplicateIfNecessary"
LocateOp == "storagesContainingFile"
UploadOp == "uploadFileToStorage"
DeleteOp == "deleteFiles"

ProbeFaults(cl) == cl.faults \cap {"probeA", "probeB"}
Finished(cl, o) == cl.pc = "done" /\ cl.op = o
\* The call ran alone and every adapter call it made was answered.
Undisturbed(cl) == cl.clean /\ cl.faults = {}
HeldByOne(cl, p) == (cl.preAz[p] = Absent) # (cl.preS3[p] = Absent)
HeldByBoth(cl, p) == cl.preAz[p] # Absent /\ cl.preS3[p] # Absent
HeldByNone(cl, p) == cl.preAz[p] = Absent /\ cl.preS3[p] = Absent
Null == [kind |-> "null", val |-> 0]
LocationSet(t) == [kind |-> "set", val |-> t]

\* C1: a replicating read of a path held by exactly one backend, run alone
\* and with every adapter call answered, returns null, leaves in the local
\* destination the content the holding backend had, copies that content to
\* the other backend, and a storagesContainingFile call made next returns
\* Both.
C1_ReplicatingReadRepairs ==
    \A c \in DOMAIN call :
        LET cl == call[c]
            lc == last[c]
        IN
        /\ \A p \in cl.paths :
             (Finished(cl, ReplicateOp) /\ Undisturbed(cl) /\ HeldByOne(cl, p))
             => /\ cl.result = Null
                /\ local[c] = (IF cl.preAz[p] # Absent THEN cl.preAz[p]
                               ELSE cl.preS3[p])
                /\ azure[p] = local[c] /\ s3[p] = local[c]
        /\ \A p \in cl.paths :
             (Finished(cl, LocateOp) /\ Undisturbed(cl)
                /\ lc.op = ReplicateOp /\ lc.faults = {} /\ HeldByOne(lc, p))
             => lc.result = Null /\ cl.result = LocationSet(Both)

C1_Witness ==
    \E c \in DOMAIN call : \E p \in call[c].paths :
        /\ Finished(call[c], LocateOp) /\ Undisturbed(call[c])
        /\ last[c].op = ReplicateOp /\ last[c].faults = {}
        /\ last[c].preAz[p] = Absent /\ last[c].preS3[p] # Absent
        /\ last[c].result = Null
        /\ call[c].result = LocationSet(Both)

\* C2: a replicating read of a path stored in neither backend, with both
\* probes answered, returns NotFound, fetches from no backend, stores to no
\* backend, leaves the local destination as it was (no file is created) and
\* leaves both backends without the object.
C2_AbsentObjectIsNotFound ==
    \A c \in DOMAIN call : \A p \in call[c].paths :
        LET cl == call[c] IN
        (Finished(cl, ReplicateOp) /\ cl.clean /\ ProbeFaults(cl) = {}
           /\ HeldByNone(cl, p))
        => /\ cl.result = [kind |-> ERROR_CODE_NOT_FOUND, val |-> 0]
           /\ cl.fetched = {} /\ cl.stored = {}
           /\ local[c] = cl.preLocal
           /\ azure[p] = Absent /\ s3[p] = Absent

C2_Witness ==
    \E c \in DOMAIN call : \E p \in call[c].paths :
        /\ Finished(call[c], ReplicateOp) /\ call[c].clean
        /\ ProbeFaults(call[c]) = {} /\ HeldByNone(call[c], p)
        /\ call[c].result.kind = ERROR_CODE_NOT_FOUND
        /\ call[c].preLocal = Absent /\ local[c] = Absent

\* C3: a replicating read of a path held by both backends fetches from
\* Azure only and stores nowhere; of two such reads in a row neither writes
\* to a backend, both return null and both leave the same content in the
\* destination.
C3_ReplicationIsNoOpWhenBoth ==
    \A c \in DOMAIN call : \A p \in call[c].paths :
        LET cl == call[c]
            lc == last[c]
        IN
        /\ (Finished(cl, ReplicateOp) /\ Undisturbed(cl) /\ HeldByBoth(cl, p))
           => /\ cl.result = Null
              /\ cl.fetched = {AzureBlobStorage} /\ cl.stored = {}
              /\ azure[p] = cl.preAz[p] /\ s3[p] = cl.preS3[p]
              /\ local[c] = cl.preAz[p]
        /\ (Finished(cl, ReplicateOp) /\ Undisturbed(cl)
              /\ lc.op = ReplicateOp /\ lc.faults = {} /\ HeldByBoth(lc, p))
           => /\ lc.result = Null /\ lc.stored = {}
              /\ cl.result = Null /\ cl.stored = {}
              /\ local[c] = lc.preLocal

C3_Witness ==
    \E c \in DOMAIN call : \E p \in call[c].paths :
        /\ Finished(call[c], ReplicateOp) /\ Undisturbed(call[c])
        /\ last[c].op = ReplicateOp /\ last[c].faults = {}
        /\ HeldByBoth(last[c], p) /\ last[c].result = Null
        /\ call[c].result = Null /\ local[c] = last[c].preLocal
        /\ local[c] \in Content

\* The backends of the effective target set whose upload was answered.
Landed(cl) ==
    LET eff == EffectiveStorage(cl.storageToUse) IN
    (IF HasAzure(eff) /\ "storeA" \notin cl.faults THEN AzureBlobStorage ELSE 0)
    + (IF HasAws(eff) /\ "storeB" \notin cl.faults THEN AwsS3 ELSE 0)

\* C4: uploadFileToStorage never fails because an upload failed: no
\* failure of an upload ends the process the call runs in, and the call
\* returns a set of storages, never an error: exactly the targeted backends
\* whose upload succeeded, and each of them holds the uploaded content.
C4_UploadReportsWhatLanded ==
    \A c \in DOMAIN call : \A p \in call[c].paths :
        LET cl == call[c] IN
        /\ cl.op = UploadOp => process = "running"
        /\ Finished(cl, UploadOp)
           => /\ cl.result = LocationSet(Landed(cl))
              /\ (cl.clean /\ HasAzure(cl.result.val)) => azure[p] = cl.src
              /\ (cl.clean /\ HasAws(cl.result.val)) => s3[p] = cl.src

C4_Witness ==
    \E c \in DOMAIN call :
        /\ Finished(call[c], UploadOp)
        /\ EffectiveStorage(call[c].storageToUse) = Both
        /\ call[c].faults = {"storeB"}
        /\ call[c].result = LocationSet(AzureBlobStorage)

\* C5: when an upload to both storages has returned Both, both backends
\* hold the uploaded content, and a storagesContainingFile call made next
\* (nothing deleted in between, probes answered) returns Both.
C5_UploadedToBothIsLocatedInBoth ==
    \A c \in DOMAIN call : \A p \in call[c].paths :
        LET cl == call[c]
            lc == last[c]
        IN
        /\ (Finished(cl, UploadOp) /\ cl.clean
              /\ EffectiveStorage(cl.storageToUse) = Both
              /\ cl.result = LocationSet(Both))
           => azure[p] = cl.src /\ s3[p] = cl.src
        /\ (Finished(cl, LocateOp) /\ Undisturbed(cl)
              /\ lc.op = UploadOp /\ lc.storageToUse = Both
              /\ lc.result = LocationSet(Both))
           => cl.result = LocationSet(Both)

C5_Witness ==
    \E c \in DOMAIN call :
        /\ Finished(call[c], LocateOp) /\ Undisturbed(call[c])
        /\ last[c].op = UploadOp /\ last[c].storageToUse = Both
        /\ last[c].result = LocationSet(Both)
        /\ call[c].result = LocationSet(Both)

\* The previous call was an upload to both storages whose S3 upload failed
\* and whose Azure upload succeeded; the current one is an answered locate.
LocateAfterS3UploadFailed(cl, lc) ==
    /\ Finished(cl, LocateOp) /\ Undisturbed(cl)
    /\ lc.op = UploadOp /\ lc.storageToUse = Both
    /\ lc.faults = {"storeB"}

\* C6 (as claimed): if the S3 upload of an upload to both storages fails,
\* the call goes on to return a set, the returned set is Azure only and a
\* locate made afterwards returns Azure only.
C6_AsClaimed ==
    \A c \in DOMAIN call :
        /\ (call[c].op = UploadOp /\ "storeB" \in call[c].faults)
             => process = "running"
        /\ LocateAfterS3UploadFailed(call[c], last[c])
             => /\ last[c].result = LocationSet(AzureBlobStorage)
                /\ call[c].result = LocationSet(AzureBlobStorage)

\* C6 (what holds of the calls that return): if the S3 upload of an upload
\* to both storages fails, the
\* returned set is Azure only; a locate made afterwards returns Azure only
\* when S3 did not hold the path before the upload, and Both when it did
\* (the failed upload leaves the older S3 object in place).
C6_FailedS3UploadKeepsOldObject ==
    \A c \in DOMAIN call : \A p \in call[c].paths :
        LocateAfterS3UploadFailed(call[c], last[c])
        => /\ last[c].result = LocationSet(AzureBlobStorage)
           /\ call[c].result =
                 LocationSet(IF last[c].preS3[p] = Absent
                             THEN AzureBlobStorage ELSE Both)

C6_Witness ==
    \E c \in DOMAIN call : \E p \in call[c].paths :
        /\ LocateAfterS3UploadFailed(call[c], last[c])
        /\ last[c].preS3[p] # Absent
        /\ last[c].result = LocationSet(AzureBlobStorage)
        /\ call[c].result = LocationSet(Both)

\* C7 (as claimed): after deleteFiles on a path held by both backends has
\* returned null, a locate of the path (probes answered) returns Undefined.
C7_DeletedWhenDeleteReturns ==
    \A c \in DOMAIN call : \A p \in call[c].paths :
        LET cl == call[c]
            lc == last[c]
        IN
        (Finished(cl, LocateOp) /\ ProbeFaults(cl) = {}
           /\ lc.op = DeleteOp /\ lc.result = Null /\ HeldByBoth(lc, p))
        => cl.result = LocationSet(Undefined)

\* C8 (as claimed): deleteFiles on a path held by both backends returns an
\* error if and only if the delete failed on at least one backend.
C8_DeleteErrorIffABackendFailed ==
    \A c \in DOMAIN call : \A p \in call[c].paths :
        LET cl == call[c] IN
        (Finished(cl, DeleteOp) /\ cl.clean /\ HeldByBoth(cl, p))
        => ((cl.result # Null) <=> (cl.faults \cap {"azdel", "s3del"} # {}))

\* C9 (as claimed): when a probe of storagesContainingFile hits a transport
\* fault, the call returns no set of storages, and the calls built on it
\* return a backend error.
C9_ProbeFaultFailsLocate ==
    \A c \in DOMAIN call :
        LET cl == call[c] IN
        (cl.pc = "done" /\ cl.op \in LocateOps /\ ProbeFaults(cl) # {})
        => cl.result.kind \in {"azureError", "s3Error"}

\* C10 (as claimed): downloadFile, downloadFileToDisk and the replicating
\* read return NotFound only when both backends lack the object, and always
\* when they lack it and every adapter call was answered; with a probe or
\* fetch fault on an object some backend holds they return an error other
\* than NotFound.
C10_NotFoundIffAbsent ==
    \A c \in DOMAIN call : \A p \in call[c].paths :
        LET cl == call[c] IN
        (cl.pc = "done" /\ cl.clean
           /\ cl.op \in {"downloadFile", "downloadFileToDisk", ReplicateOp})
        => /\ (cl.result.kind = ERROR_CODE_NOT_FOUND) => HeldByNone(cl, p)
           /\ (HeldByNone(cl, p) /\ cl.faults = {})
                 => cl.result.kind = ERROR_CODE_NOT_FOUND
           /\ (cl.faults # {} /\ ~HeldByNone(cl, p))
                 => cl.result.kind \in {"azureError", "s3Error", "notImplemented"}

\* C11 (as claimed): in storagesContainingFile, and in every call built on
\* it, the S3 probe has been issued while the Azure probe is still in
\* flight, and the set returned is the union of the two answers.
C11_ProbesIssuedTogether ==
    \A c \in DOMAIN call :
        LET cl == call[c] IN
        /\ (cl.op \in LocateOps /\ cl.pc = "probeA") => AwsS3 \in cl.probed
        /\ Finished(cl, LocateOp)
             => cl.result = LocationSet(
                    (IF cl.fileExistsBlob THEN AzureBlobStorage ELSE 0)
                    + (IF HasAws(cl.found) THEN AwsS3 ELSE 0))

\* What storagesContainingFile computes for a call that ran alone, from the
\* backends' contents and the outcomes of its two probes.
Located(cl, p) ==
    StoragesContaining(AzureFileExists(cl.preAz[p], "probeA" \in cl.faults),
                       AwsFileExists(cl.preS3[p], "probeB" \in cl.faults))

\* C12: for every backend state and every outcome of the probes, fileExists
\* returns true exactly when storagesContainingFile returns a set other than
\* Undefined; for a path stored in neither backend (probes answered)
\* storagesContainingFile returns Undefined and fileExists returns false.
C12_FileExistsIffLocated ==
    \A c \in DOMAIN call : \A p \in call[c].paths :
        LET cl == call[c] IN
        /\ (Finished(cl, LocateOp) /\ cl.clean)
             => cl.result = LocationSet(Located(cl, p))
        /\ (Finished(cl, "fileExists") /\ cl.clean)
             => /\ cl.result.kind = "bool"
                /\ (cl.result.val = 1) <=> (Located(cl, p) # Undefined)
        /\ (Finished(cl, LocateOp) /\ cl.clean /\ cl.faults = {}
               /\ HeldByNone(cl, p))
             => cl.result = LocationSet(Undefined)
        /\ (Finished(cl, "fileExists") /\ cl.clean /\ cl.faults = {}
               /\ HeldByNone(cl, p))
             => cl.result = [kind |-> "bool", val |-> 0]

C12_Witness ==
    \E c \in DOMAIN call : \E p \in call[c].paths :
        /\ Finished(call[c], "fileExists") /\ Undisturbed(call[c])
        /\ call[c].preAz[p] = Absent /\ call[c].preS3[p] # Absent
        /\ call[c].result = [kind |-> "bool", val |-> 1]

ListOp == "listFileNamesWithPrefix"
Range(seq) == {seq[i] : i \in DOMAIN seq}
\* The names with the call's prefix that a backend held when the call began.
HeldNames(pre, prefix) ==
    {p \in Paths : pre[p] # Absent /\ StartsWith(p, prefix)}

\* C13 (as claimed): when the listing of exactly one backend fails,
\* listFileNamesWithPrefix still returns a list of names, and the list holds
\* the names the other backend returned.
C13_ListingFailureTolerated ==
    \A c \in DOMAIN call :
        LET cl == call[c] IN
        /\ (Finished(cl, ListOp) /\ cl.clean /\ cl.faults = {"listA"})
             => /\ cl.result.kind = "names"
                /\ Range(cl.fileNames) = HeldNames(cl.preS3, cl.prefix)
        /\ (Finished(cl, ListOp) /\ cl.clean /\ cl.faults = {"listB"})
             => /\ cl.result.kind = "names"
                /\ Range(cl.fileNames) = HeldNames(cl.preAz, cl.prefix)

\* C14 (as claimed): when both listings succeed, the list returned by
\* listFileNamesWithPrefix holds every name with the prefix stored in Azure
\* and every such name stored in S3.
C14_ListsNamesOfBothBackends ==
    \A c \in DOMAIN call :
        LET cl == call[c] IN
        (Finished(cl, ListOp) /\ cl.clean /\ cl.faults = {})
        => /\ cl.result.kind = "names"
           /\ HeldNames(cl.preAz, cl.prefix) \subseteq Range(cl.fileNames)
           /\ HeldNames(cl.preS3, cl.prefix) \subseteq Range(cl.fileNames)

\* C15 (as claimed): downloadFile, run alone with every adapter call
\* answered, returns the object's payload whenever some backend holds the
\* object, Azure's when Azure holds it and S3's when only S3 holds it, and
\* returns NotFound when neither holds it.
C15_DownloadFileReturnsPayload ==
    \A c \in DOMAIN call : \A p \in call[c].paths :
        LET cl == call[c] IN
        (Finished(cl, "downloadFile") /\ Undisturbed(cl))
        => IF HeldByNone(cl, p)
           THEN cl.result = [kind |-> ERROR_CODE_NOT_FOUND, val |-> 0]
           ELSE cl.result =
                   [kind |-> "payload",
                    val |-> IF cl.preAz[p] # Absent THEN cl.preAz[p]
                            ELSE cl.preS3[p]]

ToDiskOp == "downloadFileToDisk"

\* C16: downloadFileToDisk never stores to or deletes from a backend,
\* whatever its probes report and whatever fails; with its probes answered
\* it fetches from Azure when Azure holds the object, from S3 when only S3
\* does, and from neither (NotFound) when neither does; when the fetch is
\* answered too it returns null with the fetched content in the destination.
C16_DownloadToDiskOnlyReads ==
    \A c \in DOMAIN call : \A p \in call[c].paths :
        LET cl == call[c] IN
        /\ cl.op = ToDiskOp => cl.stored = {} /\ cl.pc # "push"
        /\ (cl.op = ToDiskOp /\ cl.clean)
             => /\ azure[p] = cl.preAz[p] /\ s3[p] = cl.preS3[p]
                /\ azDeletes[c][p] = 0
        /\ (Finished(cl, ToDiskOp) /\ cl.clean /\ ProbeFaults(cl) = {})
             => cl.fetched = (IF cl.preAz[p] # Absent THEN {AzureBlobStorage}
                              ELSE IF cl.preS3[p] # Absent THEN {AwsS3}
                              ELSE {})
        /\ (Finished(cl, ToDiskOp) /\ Undisturbed(cl))
             => IF HeldByNone(cl, p)
                THEN /\ cl.result = [kind |-> ERROR_CODE_NOT_FOUND, val |-> 0]
                     /\ local[c] = cl.preLocal
                ELSE /\ cl.result = Null
                     /\ local[c] = (IF cl.preAz[p] # Absent THEN cl.preAz[p]
                                    ELSE cl.preS3[p])

C16_Witness ==
    \E c \in DOMAIN call : \E p \in call[c].paths :
        /\ Finished(call[c], ToDiskOp) /\ Undisturbed(call[c])
        /\ HeldByBoth(call[c], p) /\ call[c].preAz[p] # call[c].preS3[p]
        /\ call[c].fetched = {AzureBlobStorage} /\ call[c].result = Null
        /\ local[c] = azure[p] /\ s3[p] = call[c].preS3[p]

FaultFree(c) == call[c].faults = {}

\* What holds at every moment of the race of C17.
C17_RaceSafe ==
    \A p \in Paths :
        /\ \A c \in Racers :
             (Finished(call[c], ReplicateOp) /\ FaultFree(c))
             => call[c].result = Null /\ local[c] = call[c].preAz[p]
        /\ (RaceOver /\ \A c \in Racers : FaultFree(c))
             => /\ azure[p] \in Content /\ s3[p] = azure[p]
                /\ LocateNow(p) = Both
        /\ (Finished(call[Observer], LocateOp) /\ FaultFree(Observer)
               /\ \A c \in Racers : FaultFree(c))
             => call[Observer].result = LocationSet(Both)

\* C17: two simultaneous replicating reads of an object that only Azure
\* holds, under every interleaving of their probes, fetches and pushes:
\* both return, unless the process is terminated on a failed fetch from
\* S3; a read all of whose adapter calls were answered returns
\* null with the object's content in its destination; and when both did,
\* both backends hold that content and a storagesContainingFile call made
\* afterwards returns Both.
C17_RacingReadsBothSucceed ==
    []C17_RaceSafe /\ <>(RaceOver \/ process = "exited")

C17_Witness ==
    /\ RaceOver
    /\ \A c \in Racers :
          /\ FaultFree(c) /\ call[c].result = Null
          /\ call[c].found = AzureBlobStorage /\ call[c].stored = {AwsS3}
    /\ Finished(call[Observer], LocateOp) /\ FaultFree(Observer)
    /\ call[Observer].result = LocationSet(Both)

\* C18 (as claimed): in every coordinator operation each backend's scope is
\* the explicit argument if given, else that backend's default, else the
\* other backend's scope (its explicit argument or its default), for Azure
\* as well as for S3.
C18_SymmetricScopeFallback ==
    asked.out = "scopes"
    => LET own == [azure |-> Or(asked.containerName,
                                 client.azure.defaultContainerName),
                    aws |-> Or(asked.bucketName,
                               client.aws.defaultBucketName)]
       IN  /\ asked.azure = Or(own.azure, own.aws)
           /\ asked.aws = Or(own.aws, own.azure)

\* C18 (amended): in every coordinator operation the container is the
\* explicit container name if given, else Azure's default, with no further
\* fallback; the bucket is the explicit bucket name if given, else S3's
\* default, else the container just resolved (the explicit container name
\* or Azure's default).
C18_BucketFallsBackToContainer ==
    asked.out = "scopes"
    => /\ asked.azure = Or(asked.containerName,
                           client.azure.defaultContainerName)
       /\ asked.aws = Or(Or(asked.bucketName, client.aws.defaultBucketName),
                         asked.azure)

C18_Witness ==
    /\ asked.out = "scopes"
    /\ asked.containerName # NoScope /\ asked.bucketName = NoScope
    /\ client.aws.defaultBucketName = NoScope
    /\ client.azure.defaultContainerName \notin {NoScope, asked.containerName}
    /\ asked.azure = asked.containerName /\ asked.aws = asked.containerName

\* C20 (as claimed): isInitialized, on the coordinator and on each adapter,
\* returns false before initialize has been called on the object and true
\* after.
C20_IsInitializedTellsInitialized ==
    asked.op = "isInitialized"
    => asked.out = (IF asked.initialized THEN "true" ELSE "false")

SingleStorage == {AzureBlobStorage, AwsS3}
\* The previous call was an answered upload, to one storage, of a path that
\* neither backend held.
WasSingleUploadOfNew(lc, p) ==
    /\ lc.op = UploadOp /\ lc.storageToUse \in SingleStorage
    /\ lc.faults = {} /\ HeldByNone(lc, p)

\* C19: an upload to one storage T of a path that neither backend held,
\* with the upload answered, returns exactly T, stores the content in T and
\* leaves the other backend without the object; a storagesContainingFile
\* call made next returns exactly T and a fileExists call made next returns
\* true.
C19_SingleTargetUpload ==
    \A c \in DOMAIN call : \A p \in call[c].paths :
        LET cl == call[c]
            lc == last[c]
        IN
        /\ (Finished(cl, UploadOp) /\ Undisturbed(cl) /\ HeldByNone(cl, p)
              /\ cl.storageToUse \in SingleStorage)
           => /\ cl.result = LocationSet(cl.storageToUse)
              /\ cl.stored = {cl.storageToUse}
              /\ IF cl.storageToUse = AzureBlobStorage
                 THEN azure[p] = cl.src /\ s3[p] = Absent
                 ELSE s3[p] = cl.src /\ azure[p] = Absent
        /\ (Finished(cl, LocateOp) /\ Undisturbed(cl)
              /\ WasSingleUploadOfNew(lc, p))
           => /\ lc.result = LocationSet(lc.storageToUse)
              /\ cl.result = LocationSet(lc.storageToUse)
        /\ (Finished(cl, "fileExists") /\ Undisturbed(cl)
              /\ WasSingleUploadOfNew(lc, p))
           => /\ cl.result = [kind |-> "bool", val |-> 1]
              /\ cl.found = lc.storageToUse

C19_Witness ==
    \E c \in DOMAIN call : \E p \in call[c].paths :
        /\ Finished(call[c], "fileExists") /\ Undisturbed(call[c])
        /\ WasSingleUploadOfNew(last[c], p)
        /\ last[c].storageToUse = AwsS3
        /\ last[c].result = LocationSet(AwsS3)
        /\ call[c].result = [kind |-> "bool", val |-> 1]
        /\ azure[p] = Absent /\ s3[p] \in Content

\* The set storagesContainingFile computes from what its own two probes saw.
FromOwnProbes(cl) ==
    StoragesContaining(AzureFileExists(cl.seenAz, "probeA" \in cl.faults),
                       AwsFileExists(cl.seenS3, "probeB" \in cl.faults))

LocatedFresh ==
    \A c \in DOMAIN call :
        LET cl == call[c] IN
        (cl.op \in LocateOps /\ cl.pc \notin {"probeA", "probeB"})
        => /\ cl.found = FromOwnProbes(cl)
           /\ cl.op = LocateOp => cl.result = LocationSet(cl.found)

\* C21: once the coordinator is initialized, no step of any operation
\* changes its adapters or their default scopes; and the set every
\* storagesContainingFile computes, alone or inside another operation, is a
\* function of what the two probes of that same call saw in the backends,
\* whatever the calls before it found.
C21_NoCrossCallState == [][client' = client]_vars /\ []LocatedFresh

C21_Witness ==
    \E c \in DOMAIN call : \E p \in call[c].paths :
        /\ Finished(call[c], LocateOp) /\ call[c].faults = {}
        /\ call[c].preAz[p] # Absent /\ call[c].seenAz = Absent
        /\ call[c].seenS3 # Absent
        /\ call[c].result = LocationSet(AwsS3)
        /\ client = InitializedWith(DefaultScope, DefaultScope)

\* C22: deleteFile(path) has the effect and the result of
\* deleteFiles([path]): for either call, run alone on one path, the
\* result and what the two backends hold afterwards are the same function
\* of what they held before and of which delete requests failed (and, for
\* Azure, of whether its request has been applied yet).
C22_DeleteFileIsDeleteFiles ==
    \A c \in DOMAIN call : \A p \in call[c].paths :
        LET cl == call[c] IN
        /\ (cl.op \in DeleteOps /\ cl.paths = {p} /\ cl.pc = "s3del"
               /\ cl.clean)
             => /\ azDeletes[c][p] > 0 \/ azure[p] = Absent
                      \/ "azdel" \in cl.faults
                /\ s3[p] = cl.preS3[p]
        /\ (Finished(cl, "deleteFile") \/ Finished(cl, DeleteOp))
             /\ cl.paths = {p} /\ cl.clean
             => /\ cl.result = (IF "s3del" \in cl.faults
                                THEN [kind |-> "s3Error", val |-> 0] ELSE Null)
                /\ s3[p] = (IF "s3del" \in cl.faults THEN cl.preS3[p]
                            ELSE Absent)
                /\ azure[p] = (IF azDeletes[c][p] > 0 \/ "azdel" \in cl.faults
                               THEN cl.preAz[p] ELSE Absent)

C22_Witness ==
    \E c \in DOMAIN call : \E p \in call[c].paths :
        /\ Finished(call[c], "deleteFile") /\ call[c].clean
        /\ HeldByBoth(call[c], p) /\ call[c].faults = {"s3del"}
        /\ azDeletes[c][p] = 0
        /\ azure[p] = Absent /\ s3[p] = call[c].preS3[p]
        /\ call[c].result = [kind |-> "s3Error", val |-> 0]

\* C23 (as claimed): uploadFile called with a container-and-bucket name
\* addresses the Azure container of that name and the S3 bucket of that
\* name, whatever default names the client was initialized with.
C23_UploadFileUsesGivenNameForBoth ==
    (asked.op = "uploadFile" /\ asked.out = "scopes"
       /\ asked.containerName # NoScope)
    => /\ asked.azure = asked.containerName
       /\ asked.aws = asked.containerName

\* C24: the storage sets form a set algebra over {Azure, S3}: Undefined is
\* the identity of union, union is commutative and idempotent, the union of
\* AzureBlobStorage and AwsS3 is Both, and every value returned by
\* storagesContainingFile and by uploadFileToStorage is one of the four
\* sets, equal to the union of the single storages it has as members.
SetAlgebra ==
    /\ \A a \in StorageType :
          /\ BitOr(a, Undefined) = a /\ BitOr(Undefined, a) = a
          /\ BitOr(a, a) = a
          /\ \A b \in StorageType :
                /\ BitOr(a, b) = BitOr(b, a)
                /\ BitOr(a, b) \in StorageType
                /\ HasAzure(BitOr(a, b)) = (HasAzure(a) \/ HasAzure(b))
                /\ HasAws(BitOr(a, b)) = (HasAws(a) \/ HasAws(b))
    /\ BitOr(AzureBlobStorage, AwsS3) = Both

C24_LocationSetAlgebra ==
    /\ SetAlgebra
    /\ \A c \in DOMAIN call :
          LET cl == call[c] IN
          (Finished(cl, LocateOp) \/ Finished(cl, UploadOp))
          => /\ cl.result.kind = "set"
             /\ cl.result.val \in StorageType
             /\ cl.result.val =
                  BitOr(IF HasAzure(cl.result.val) THEN AzureBlobStorage
                        ELSE Undefined,
                        IF HasAws(cl.result.val) THEN AwsS3 ELSE Undefined)

C24_Witness ==
    \E c \in DOMAIN call :
        /\ Finished(call[c], LocateOp) /\ call[c].faults = {}
        /\ call[c].seenAz # Absent /\ call[c].seenS3 # Absent
        /\ call[c].result = LocationSet(BitOr(AzureBlobStorage, AwsS3))
        /\ call[c].result = LocationSet(Both)

\* The backend that held the path when the call began, and the error of a
\* failed upload to the other one.
PushError(holder) ==
    IF holder = AzureBlobStorage THEN [kind |-> "s3Error", val |-> 0]
    ELSE [kind |-> "azureError", val |-> 0]

Holder(cl, p) == IF cl.preAz[p] # Absent THEN AzureBlobStorage ELSE AwsS3

\* C25: a replicating read of a path held by exactly one backend, run
\* alone, whose download succeeds and whose upload to the other backend
\* fails, returns that upload's error (neither null nor NotFound), leaves
\* the downloaded content in the local destination, leaves the other
\* backend without the object, and a storagesContainingFile call made next
\* returns the one backend that held it.
C25_PushFailureIsReturned ==
    \A c \in DOMAIN call :
        LET cl == call[c]
            lc == last[c]
        IN
        /\ \A p \in cl.paths :
             (Finished(cl, ReplicateOp) /\ cl.clean /\ cl.faults = {"push"}
                /\ HeldByOne(cl, p))
             => /\ cl.result = PushError(Holder(cl, p))
                /\ cl.fetched = {Holder(cl, p)}
                /\ local[c] = (IF cl.preAz[p] # Absent THEN cl.preAz[p]
                               ELSE cl.preS3[p])
                /\ azure[p] = cl.preAz[p] /\ s3[p] = cl.preS3[p]
        /\ \A p \in cl.paths :
             (Finished(cl, LocateOp) /\ Undisturbed(cl)
                /\ lc.op = ReplicateOp /\ lc.faults = {"push"}
                /\ HeldByOne(lc, p))
             => /\ lc.result = PushError(Holder(lc, p))
                /\ cl.result = LocationSet(Holder(lc, p))

C25_Witness ==
    \E c \in DOMAIN call : \E p \in call[c].paths :
        /\ Finished(call[c], LocateOp) /\ Undisturbed(call[c])
        /\ last[c].op = ReplicateOp /\ last[c].faults = {"push"}
        /\ last[c].preAz[p] # Absent /\ last[c].preS3[p] = Absent
        /\ last[c].result = [kind |-> "s3Error", val |-> 0]
        /\ local[c] = last[c].preAz[p]
        /\ s3[p] = Absent
        /\ call[c].result = LocationSet(AzureBlobStorage)

\* C26: in a replicating read the upload to the other backend comes
\* strictly after the download: the call is at its upload, or has made it,
\* only when the download from the source backend has completed without
\* error; when the download fails no upload is made, the call returns,
\* what it returns is the download's error
\* and, the call running alone, both backends are unchanged.
C26_PushOnlyAfterFetch ==
    \A c \in DOMAIN call :
        LET cl == call[c]
            from == ReplicateSource(cl.found)
        IN
        cl.op = ReplicateOp
        => /\ (cl.pc = "push" \/ cl.stored # {})
                => /\ cl.fetched = {from}
                   /\ "fetch" \notin cl.faults
                   /\ cl.stored \subseteq {ReplicateTarget(cl.found)}
           /\ cl.pc = "fetch" => cl.fetched = {} /\ cl.stored = {}
           /\ "fetch" \in cl.faults => cl.pc = "done"
           /\ (cl.pc = "done" /\ "fetch" \in cl.faults)
                => /\ cl.fetched = {from} /\ cl.stored = {}
                   /\ cl.result = (IF from = AwsS3
                                   THEN [kind |-> "s3Error", val |-> 0]
                                   ELSE [kind |-> "azureError", val |-> 0])
                   /\ cl.clean => \A p \in cl.paths :
                          azure[p] = cl.preAz[p] /\ s3[p] = cl.preS3[p]

C26_Witness ==
    \E c \in DOMAIN call : \E p \in call[c].paths :
        /\ Finished(call[c], ReplicateOp) /\ call[c].clean
        /\ call[c].faults = {"fetch"}
        /\ call[c].preS3[p] # Absent /\ call[c].preAz[p] = Absent
        /\ call[c].fetched = {AwsS3} /\ call[c].stored = {}
        /\ call[c].result = [kind |-> "s3Error", val |-> 0]
        /\ azure[p] = Absent /\ s3[p] = call[c].preS3[p]

\* C27: uploadFileToStorage with both storages requested has issued both
\* uploads before it awaits either, and each upload's outcome is reported
\* whatever the other's: S3 is in the result exactly when the S3 upload
\* succeeded, also when the Azure upload failed, and the other way round;
\* the upload that succeeded has stored the file; no failure of one upload
\* ends the process before the other is reported.
C27_BothStoresIssuedAndReported ==
    \A c \in DOMAIN call : \A p \in call[c].paths :
        LET cl == call[c] IN
        (cl.op = UploadOp /\ EffectiveStorage(cl.storageToUse) = Both)
        => /\ cl.stored = {AzureBlobStorage, AwsS3}
           /\ cl.stA # "none" /\ cl.stB # "none"
           /\ process = "running"
           /\ cl.pc = "done"
                => /\ cl.result.kind = "set"
                   /\ HasAzure(cl.result.val) = ("storeA" \notin cl.faults)
                   /\ HasAws(cl.result.val) = ("storeB" \notin cl.faults)
                   /\ (cl.clean /\ "storeA" \notin cl.faults)
                        => azure[p] = cl.src
                   /\ (cl.clean /\ "storeB" \notin cl.faults)
                        => s3[p] = cl.src
                   /\ (cl.clean /\ "storeA" \in cl.faults)
                        => azure[p] = cl.preAz[p]
                   /\ (cl.clean /\ "storeB" \in cl.faults)
                        => s3[p] = cl.preS3[p]

C27_Witness ==
    \E c \in DOMAIN call : \E p \in call[c].paths :
        /\ Finished(call[c], UploadOp) /\ call[c].clean
        /\ call[c].storageToUse = Both
        /\ call[c].faults = {"storeA"}
        /\ call[c].preS3[p] # call[c].src
        /\ call[c].result = LocationSet(AwsS3)
        /\ s3[p] = call[c].src /\ azure[p] = call[c].preAz[p]

\* C28 (as claimed): uploadFileToStorage uploads only to the storages in
\* storageToUse: called with StorageType.Undefined, the empty set, it
\* uploads to no storage and returns Undefined.
C28_UndefinedTargetsStoreNothing ==
    \A c \in DOMAIN call :
        LET cl == call[c] IN
        (cl.op = UploadOp /\ cl.storageToUse = Undefined)
        => /\ cl.stored = {}
           /\ cl.stA = "none" /\ cl.stB = "none"
           /\ cl.pc = "done" => cl.result = LocationSet(Undefined)

\* C29 (as claimed): the set uploadFileToStorage returns is a subset of
\* storageToUse, no upload is issued to a storage outside storageToUse, and
\* the call, run alone, leaves such a storage holding what it held.
C29_ResultWithinTargets ==
    \A c \in DOMAIN call : \A p \in call[c].paths :
        LET cl == call[c] IN
        cl.op = UploadOp
        => /\ AzureBlobStorage \in cl.stored => HasAzure(cl.storageToUse)
           /\ AwsS3 \in cl.stored => HasAws(cl.storageToUse)
           /\ cl.pc = "done"
                => /\ cl.result.kind = "set"
                   /\ BitOr(cl.result.val, cl.storageToUse) = cl.storageToUse
                   /\ (cl.clean /\ ~HasAzure(cl.storageToUse))
                        => azure[p] = cl.preAz[p]
                   /\ (cl.clean /\ ~HasAws(cl.storageToUse))
                        => s3[p] = cl.preS3[p]

\* C30 (as claimed): deleteFiles returns the error captured last: S3's
\* error when the S3 delete failed, whether or not the Azure delete failed
\* too; Azure's error when only the Azure delete failed; null when neither
\* failed.
C30_DeleteReturnsLastError ==
    \A c \in DOMAIN call : \A p \in call[c].paths :
        LET cl == call[c] IN
        (Finished(cl, DeleteOp) /\ cl.clean /\ azDeletes[c][p] = 0)
        => cl.result =
             (IF "s3del" \in cl.faults THEN [kind |-> "s3Error", val |-> 0]
              ELSE IF "azdel" \in cl.faults
              THEN [kind |-> "azureError", val |-> 0]
              ELSE Null)

\* C31 (as claimed): deleteFile on a path held by exactly one backend, every
\* adapter call answered, returns null, and the fileExists call made next
\* returns false.
C31_DeleteOfSingleHolderRemoves ==
    \A c \in DOMAIN call : \A p \in call[c].paths :
        LET cl == call[c]
            lc == last[c]
        IN
        (Finished(cl, "fileExists") /\ Undisturbed(cl)
           /\ lc.op = "deleteFile" /\ lc.faults = {} /\ HeldByOne(lc, p))
        => /\ lc.result = Null
           /\ cl.result = [kind |-> "bool", val |-> 0]

\* The three reads, and a read whose download from Azure failed:
\* downloadFileToDisk of the Azure adapter rejected, or, for downloadFile,
\* the Azure adapter's downloadFile threw.
ReadOps == {"downloadFile", "downloadFileToDisk", ReplicateOp}
AzureFetchFailed(cl) ==
    \/ cl.op # "downloadFile" /\ "fetch" \in cl.faults
    \/ cl.op = "downloadFile" /\ cl.result.kind = "notImplemented"

\* C32: when storagesContainingFile reported Both and the download from
\* Azure fails, downloadFile, downloadFileToDisk and the replicating read
\* do not turn to S3: no download from S3 is issued, nothing is uploaded,
\* and the error of the Azure adapter is returned, although S3 holds the
\* file.
C32_NoFallbackToS3 ==
    \A c \in DOMAIN call :
        LET cl == call[c] IN
        (cl.op \in ReadOps /\ cl.found = Both)
        => /\ AwsS3 \notin cl.fetched
           /\ cl.stored = {}
           /\ (cl.pc = "done" /\ AzureFetchFailed(cl))
                => /\ cl.result.kind =
                        (IF cl.op = "downloadFile" THEN "notImplemented"
                         ELSE "azureError")
                   /\ cl.fetched \subseteq {AzureBlobStorage}

C32_Witness ==
    \E c \in DOMAIN call : \E p \in call[c].paths :
        /\ Finished(call[c], "downloadFileToDisk") /\ call[c].clean
        /\ call[c].found = Both /\ call[c].faults = {"fetch"}
        /\ s3[p] # Absent /\ azure[p] # Absent
        /\ call[c].fetched = {AzureBlobStorage}
        /\ call[c].result = [kind |-> "azureError", val |-> 0]

\* The operations that only read the backends, and a step of such a call.
ReadOnlyOps == {"storagesContainingFile", "fileExists",
                "listFileNamesWithPrefix", "listFilesWithPrefix",
                "downloadFile"}
ReadOnlyStep ==
    \E c \in DOMAIN call :
        /\ call[c].op \in ReadOnlyOps \/ call'[c].op \in ReadOnlyOps
        /\ call'[c].pc # call[c].pc
ReadOnlyCallsKeepBackends ==
    \A c \in DOMAIN call :
        LET cl == call[c] IN
        cl.op \in ReadOnlyOps
        => /\ cl.stored = {}
           /\ cl.clean => \A p \in cl.paths :
                  azure[p] = cl.preAz[p] /\ s3[p] = cl.preS3[p]

\* C33: storagesContainingFile, fileExists, listFileNamesWithPrefix,
\* listFilesWithPrefix and downloadFile never change a backend: no step of
\* such a call, whatever its probes, listings and download report, changes
\* what Azure or S3 holds or issues a delete, and while the call runs alone
\* both backends hold for its paths what they held when it began.
C33_ReadsKeepBackends ==
    /\ [][ReadOnlyStep => UNCHANGED <<azure, s3, azDeletes>>]_vars
    /\ []ReadOnlyCallsKeepBackends

C33_Witness ==
    \E c \in DOMAIN call : \E p \in call[c].paths :
        /\ Finished(call[c], "downloadFile") /\ call[c].clean
        /\ call[c].faults = {} /\ call[c].fetched = {AwsS3}
        /\ call[c].result = [kind |-> "payload", val |-> call[c].preS3[p]]
        /\ azure[p] = Absent /\ s3[p] = call[c].preS3[p]

\* A step of a replicating read, and what holds in every state of one.
ReplicateStep ==
    \E c \in DOMAIN call :
        /\ call[c].op = ReplicateOp \/ call'[c].op = ReplicateOp
        /\ call'[c].pc # call[c].pc
NothingRemoved ==
    /\ azDeletes' = azDeletes
    /\ \A p \in Paths : azure[p] # Absent => azure'[p] # Absent
    /\ \A p \in Paths : s3[p] # Absent => s3'[p] # Absent
ReplicateOnlyAdds ==
    \A c \in DOMAIN call :
        LET cl == call[c] IN
        cl.op = ReplicateOp
        => /\ Cardinality(cl.stored) <= 1
           /\ cl.stored \cap cl.fetched = {}
           /\ AzureBlobStorage \in cl.stored
                => AzureBlobStorage \in cl.probed /\ ~HasAzure(cl.found)
           /\ AwsS3 \in cl.stored
                => AwsS3 \in cl.probed /\ ~HasAws(cl.found)
           /\ cl.clean => \A p \in cl.paths :
                  /\ cl.preAz[p] # Absent => azure[p] # Absent
                  /\ cl.preS3[p] # Absent => s3[p] # Absent

\* C34: the replicating read never removes an object and uploads only to
\* the backend its own probe reported as lacking the file: it makes at most
\* one upload, never to the backend it downloaded from, and no delete, so
\* while it runs alone a backend that held the path keeps holding it.
C34_ReplicateNeverRemoves ==
    /\ [][ReplicateStep => NothingRemoved]_vars
    /\ []ReplicateOnlyAdds

C34_Witness ==
    \E c \in DOMAIN call : \E p \in call[c].paths :
        /\ Finished(call[c], ReplicateOp) /\ Undisturbed(call[c])
        /\ call[c].found = AwsS3
        /\ call[c].preAz[p] = Absent /\ call[c].preS3[p] # Absent
        /\ call[c].fetched = {AwsS3} /\ call[c].stored = {AzureBlobStorage}
        /\ azure[p] = call[c].preS3[p] /\ s3[p] = call[c].preS3[p]

\* C35 (as claimed): whenever every call has returned and both backends
\* hold the path, after any interleaving of uploads to both storages and
\* replicating reads, the two backends hold the same content.
C35_WritesAndReadsConverge ==
    \A p \in Paths :
        ((\A c \in DOMAIN call : call[c].pc \in {"idle", "done"})
           /\ azure[p] # Absent /\ s3[p] # Absent)
        => azure[p] = s3[p]

\* C36 (as claimed): once deleteFiles has returned null and Azure has
\* applied the delete, and while the deleting caller issues nothing more,
\* no backend holds the path, whatever a replicating read that began
\* before the delete does afterwards.
C36_DeleteNotUndone ==
    \A c \in DOMAIN call : \A p \in call[c].paths :
        (Finished(call[c], DeleteOp) /\ call[c].result = Null
           /\ azDeletes[c][p] = 0 /\ "azdel" \notin call[c].faults)
        => Holders(azure, s3, p) = Undefined

\* C37 (as claimed): the set storagesContainingFile returns is the set of
\* backends that held the path at some instant between the start of the
\* call and its return.
C37_LocateIsASnapshot ==
    \A c \in DOMAIN call :
        Finished(call[c], LocateOp)
        => call[c].result.val \in call[c].instants

\* C38 (as claimed): every call of a coordinator operation eventually
\* returns an outcome to its caller, given that every adapter call it
\* issued settles; uploadFile in particular, whether the
\* uploadFileToStorage call it wraps resolves or rejects.
C38_EveryCallReturns ==
    \A c \in {Caller} :
        (call[c].pc \notin {"idle", "done"}) ~> (call[c].pc = "done")

====
